---- MODULE Spec2Model ----
(***************************************************************************)
(* Tourism-statistics pipeline of lecture-7/最終課題/app.py:               *)
(* clean_prefecture_name and load_data; and scrape_data of                 *)
(* lecture-7/最終課題/スクレイピング/scraper.py, which stores the records.  *)
(*                                                                         *)
(* Text.  A Python str is a sequence of characters.  An ASCII character is *)
(* written as itself ("1", ",", "A"); any other character is written by    *)
(* its code point, "uXXXX" (東 is "u6771", the full-width digit １ is      *)
(* "uFF11", the ideographic space is "u3000").  None is the one-element    *)
(* sequence <<"<None>">>, which is no text of the model.                   *)
(*                                                                         *)
(* Tables.  A csv file is [name, rows]: rows is the sequence of its lines, *)
(* every line a sequence of cells (the same number in every line), every   *)
(* cell the text that str() gives for the pandas value of the field (an    *)
(* empty field is "nan").                                                  *)
(* A file with no line at all is one that pandas.read_csv refuses          *)
(* (EmptyDataError).  Blank lines, which pandas skips, and lines of        *)
(* differing cell counts are not among the model's files.                  *)
(***************************************************************************)
EXTENDS Integers, Sequences, FiniteSets, TLC

VARIABLES
  pc,              \* position in load_data: "start", "read", "located", "finish", "done"
  files,           \* glob result: the csv files of csv_output, in glob order
  idx,             \* position of the for loop in files (1-based)
  data_start_row,  \* result of the scan of the current file, or NoRow
  all_data,        \* accumulated records
  result,          \* value returned by load_data
  name_in,         \* argument of a direct clean_prefecture_name call
  name_out,        \* its result
  called,          \* whether the direct call has returned
  returned,        \* what the load_data calls made so far have returned, in order
  sc_pc,           \* position in scrape_data of スクレイピング/scraper.py: "idle", "store"
  api_data,        \* the records the API serves
  records,         \* scrape_data: data['data'] of the response
  item,            \* position of the for loop in records (1-based)
  inserted,        \* scrape_data: its counter of inserted rows
  updated,         \* scrape_data: its counter of updated rows
  lastrowid,       \* cursor.lastrowid: 0 until the connection has inserted a row
  tourism_data,    \* the rows of the table tourism_data, in rowid order
  scraping_log,    \* the rows of the table scraping_log, in rowid order
  scrape_returned, \* what the scrape_data calls made so far have returned, in order
  result_value,    \* calculator: self.result.value, the value the display shows
  operator,        \* calculator: self.operator, the pending operator
  operand1,        \* calculator: self.operand1, the first operand
  new_operand,     \* calculator: self.new_operand
  after_error,     \* calculator: whether the last press found "Error" on the display
  raised,          \* calculator: whether the last press ended in an uncaught exception
  entered,         \* calculator: the presses of a recorded session, in order
  recording,       \* calculator: whether the session is recorded
  tables,          \* weather: the tables areas, report_info and forecasts as the connection sees them
  committed,       \* weather: the tables as last committed
  in_transaction,  \* weather: whether the connection has an open transaction
  wx_last,         \* weather: the last call of WeatherAPI and what it did
  served           \* weather: the areas a get_weather_forecast call has returned a forecast for

\* the variables of load_data and of the direct clean_prefecture_name call
app_vars ==
  <<pc, files, idx, data_start_row, all_data, result, name_in, name_out, called,
    returned>>

\* the variables of scrape_data
scraper_vars ==
  <<sc_pc, api_data, records, item, inserted, updated, lastrowid, tourism_data,
    scraping_log, scrape_returned>>

\* the variables of the calculator
calc_vars ==
  <<result_value, operator, operand1, new_operand, after_error, raised, entered,
    recording>>

\* the variables of the weather cache
weather_vars == <<tables, committed, in_transaction, wx_last, served>>

vars == <<app_vars, scraper_vars, calc_vars, weather_vars>>

----------------------------------------------------------------------------
(* Characters *)

None == <<"<None>">>

\* whitespace removed by str.strip() (the members the model's texts use)
Whitespace == {" ", "\t", "\n", "\r", "u3000"}

\* [0-9] of a Python 3 str pattern: the ASCII digits only
AsciiDigits == {"0", "1", "2", "3", "4", "5", "6", "7", "8", "9"}

\* full-width digits ０..９
FullWidthDigits ==
  {"uFF10", "uFF11", "uFF12", "uFF13", "uFF14", "uFF15", "uFF16", "uFF17", "uFF18", "uFF19"}

\* \d of a Python 3 str pattern, and the digits float() reads: any Unicode decimal digit
UnicodeDigits == AsciiDigits \cup FullWidthDigits

Min(S) == CHOOSE m \in S : \A n \in S : m <= n

\* s[i..] (Python s[i-1:])
From(s, i) == SubSeq(s, i, Len(s))

\* smallest 1-based position where pat occurs in s, 0 when it does not (str.find + 1)
Find(s, pat) ==
  LET I == {i \in 1..(Len(s) - Len(pat) + 1) : SubSeq(s, i, i + Len(pat) - 1) = pat}
  IN  IF I = {} THEN 0 ELSE Min(I)

\* pat in s
Contains(s, pat) == Find(s, pat) # 0

RECURSIVE LStrip(_)
LStrip(s) == IF s # <<>> /\ Head(s) \in Whitespace THEN LStrip(Tail(s)) ELSE s

RECURSIVE RStrip(_)
RStrip(s) ==
  IF s # <<>> /\ s[Len(s)] \in Whitespace THEN RStrip(SubSeq(s, 1, Len(s) - 1)) ELSE s

\* str.strip()
strip(s) == RStrip(LStrip(s))

\* str.replace(lit, ''): every non-overlapping occurrence, left to right
RECURSIVE replace(_, _)
replace(s, lit) ==
  LET k == Find(s, lit)
  IN  IF k = 0 THEN s
      ELSE SubSeq(s, 1, k - 1) \o replace(From(s, k + Len(lit)), lit)

----------------------------------------------------------------------------
(* clean_prefecture_name *)

Shisetsu == <<"u65BD", "u8A2D", "u6240", "u5728", "u5730">>           \* 施設所在地
OyobiUnyukyoku == <<"u53CA", "u3073", "u904B", "u8F38", "u5C40", "u7B49">>  \* 及び運輸局等
Kubun47 == <<"uFF08", "4", "7", "u533A", "u5206">>                     \* （47区分
Reiwa == <<"u4EE4", "u548C">>                                          \* 令和
Heisei == <<"u5E73", "u6210">>                                         \* 平成
Nen == "u5E74"                                                         \* 年

\* re.sub(r'^[0-9]+', '', name): a leading run of ASCII digits is removed
RECURSIVE sub_leading_digits(_)
sub_leading_digits(s) ==
  IF s # <<>> /\ Head(s) \in AsciiDigits THEN sub_leading_digits(Tail(s)) ELSE s

\* re.sub(marker + '.*', '', name): from each occurrence of the marker up to
\* the end of its line ('.' does not match "\n") is removed
RECURSIVE sub_marker(_, _)
sub_marker(s, marker) ==
  LET k == Find(s, marker)
      rest == From(s, k + Len(marker))
      nl == Find(rest, <<"\n">>)
  IN  IF k = 0 THEN s
      ELSE IF nl = 0 THEN SubSeq(s, 1, k - 1)
      ELSE SubSeq(s, 1, k - 1) \o sub_marker(From(rest, nl), marker)

\* re.search(era + r'\d+年', name)
search_era(s, era) ==
  \E i \in 1..Len(s) : \E j \in (i + Len(era) + 1)..Len(s) :
     /\ SubSeq(s, i, i + Len(era) - 1) = era
     /\ \A k \in (i + Len(era))..(j - 1) : s[k] \in UnicodeDigits
     /\ s[j] = Nen

\* the literal exclude_patterns, searched as substrings
exclude_literals ==
  { <<"u904B", "u8F38", "u5C40">>,   \* 運輸局
    <<"u7DCF", "u6570">>,            \* 総数
    <<"u5168", "u56FD">>,            \* 全国
    <<"u5408", "u8A08">>,            \* 合計
    <<"u6CE8", "uFF09">>,            \* 注）
    <<"u8CC7", "u6599">>,            \* 資料
    <<"uFF08">>,                     \* （
    <<"u6708">>,                     \* 月
    <<"u5E74", "u8A08">> }           \* 年計

\* for pattern in exclude_patterns: if re.search(pattern, name)
excluded(s) ==
  \/ search_era(s, Reiwa)
  \/ search_era(s, Heisei)
  \/ \E lit \in exclude_literals : Contains(s, lit)

valid_prefectures ==
  << <<"u5317", "u6D77", "u9053">>,
     <<"u9752", "u68EE", "u770C">>,
     <<"u5CA9", "u624B", "u770C">>,
     <<"u5BAE", "u57CE", "u770C">>,
     <<"u79CB", "u7530", "u770C">>,
     <<"u5C71", "u5F62", "u770C">>,
     <<"u798F", "u5CF6", "u770C">>,
     <<"u8328", "u57CE", "u770C">>,
     <<"u6803", "u6728", "u770C">>,
     <<"u7FA4", "u99AC", "u770C">>,
     <<"u57FC", "u7389", "u770C">>,
     <<"u5343", "u8449", "u770C">>,
     <<"u6771", "u4EAC", "u90FD">>,
     <<"u795E", "u5948", "u5DDD", "u770C">>,
     <<"u65B0", "u6F5F", "u770C">>,
     <<"u5BCC", "u5C71", "u770C">>,
     <<"u77F3", "u5DDD", "u770C">>,
     <<"u798F", "u4E95", "u770C">>,
     <<"u5C71", "u68A8", "u770C">>,
     <<"u9577", "u91CE", "u770C">>,
     <<"u5C90", "u961C", "u770C">>,
     <<"u9759", "u5CA1", "u770C">>,
     <<"u611B", "u77E5", "u770C">>,
     <<"u4E09", "u91CD", "u770C">>,
     <<"u6ECB", "u8CC0", "u770C">>,
     <<"u4EAC", "u90FD", "u5E9C">>,
     <<"u5927", "u962A", "u5E9C">>,
     <<"u5175", "u5EAB", "u770C">>,
     <<"u5948", "u826F", "u770C">>,
     <<"u548C", "u6B4C", "u5C71", "u770C">>,
     <<"u9CE5", "u53D6", "u770C">>,
     <<"u5CF6", "u6839", "u770C">>,
     <<"u5CA1", "u5C71", "u770C">>,
     <<"u5E83", "u5CF6", "u770C">>,
     <<"u5C71", "u53E3", "u770C">>,
     <<"u5FB3", "u5CF6", "u770C">>,
     <<"u9999", "u5DDD", "u770C">>,
     <<"u611B", "u5A9B", "u770C">>,
     <<"u9AD8", "u77E5", "u770C">>,
     <<"u798F", "u5CA1", "u770C">>,
     <<"u4F50", "u8CC0", "u770C">>,
     <<"u9577", "u5D0E", "u770C">>,
     <<"u718A", "u672C", "u770C">>,
     <<"u5927", "u5206", "u770C">>,
     <<"u5BAE", "u5D0E", "u770C">>,
     <<"u9E7F", "u5150", "u5CF6", "u770C">>,
     <<"u6C96", "u7E04", "u770C">> >>

\* the whitelist as a set
ValidSet == {valid_prefectures[i] : i \in 1..Len(valid_prefectures)}

\* a slip that accepts any text holding a whitelist name (substring instead of equality)
in_valid_prefectures_substring(name) == \E p \in ValidSet : Contains(name, p)

\* name in valid_prefectures
in_valid_prefectures(name) == name \in ValidSet

\* lines 15-20: the stripping steps
strip_steps(raw) ==
  strip(replace(sub_marker(sub_marker(sub_leading_digits(strip(raw)), Shisetsu),
                           OyobiUnyukyoku),
                Kubun47))

\* a slip that returns the stripped text without the whitelist test
clean_prefecture_name_unchecked(raw) ==
  LET name == strip_steps(raw)
  IN  IF excluded(name) THEN None
      ELSE IF Len(name) < 2 THEN None
      ELSE name

\* a slip in the length rule: names of fewer than 4 characters are dropped
clean_prefecture_name_min_four(raw) ==
  LET name == strip_steps(raw)
  IN  IF excluded(name) THEN None
      ELSE IF Len(name) < 4 THEN None
      ELSE IF in_valid_prefectures(name) THEN name
      ELSE None

clean_prefecture_name(raw) ==
  LET name == strip_steps(raw)
  IN  IF excluded(name) THEN None
      ELSE IF Len(name) < 2 THEN None
      ELSE IF in_valid_prefectures(name) THEN name
      ELSE None

----------------------------------------------------------------------------
(* int(float(str(cell).replace(',', ''))) *)

AsciiDigitSeq == <<"0", "1", "2", "3", "4", "5", "6", "7", "8", "9">>
FullWidthDigitSeq ==
  <<"uFF10", "uFF11", "uFF12", "uFF13", "uFF14", "uFF15", "uFF16", "uFF17", "uFF18", "uFF19">>

DigitValue(c) == CHOOSE d \in 0..9 : AsciiDigitSeq[d + 1] = c \/ FullWidthDigitSeq[d + 1] = c

AllDigits(s) == \A i \in 1..Len(s) : s[i] \in UnicodeDigits

RECURSIVE ToNat(_)
ToNat(ds) ==
  IF ds = <<>> THEN 0
  ELSE ToNat(SubSeq(ds, 1, Len(ds) - 1)) * 10 + DigitValue(ds[Len(ds)])

RECURSIVE Pow10(_)
Pow10(n) == IF n = 0 THEN 1 ELSE 10 * Pow10(n - 1)

\* the outcome of a conversion that raised (ValueError, OverflowError): caught by the bare except
Raised == [ok |-> FALSE, value |-> 0]

\* float(text) then int(): text is [ws] [sign] digits [. digits] [e [sign] digits] [ws]
\* with at least one mantissa digit; the value is truncated toward zero.  Any
\* other text ("nan", "inf", "abc", "") raises in float() or in int().  Digit
\* groups joined by "_", which float() also reads, are not among the model's
\* texts.
\* float() gives the double nearest to the decimal (ties to even).  int() of
\* it differs from the truncated decimal where the double is the next whole
\* number: the decimal n.f, n below 2^21, is read as n + 1 when its fraction is
\* at least 1 - 2^-54 (n = 0) or 1 - 2^-(53 - e), 2^e <= n < 2^(e+1): half a
\* step of the doubles below n + 1.  The model's texts with an exponent are
\* short, and their arithmetic is exact.

\* [sign] rest
split_sign(t) ==
  IF t # <<>> /\ t[1] \in {"+", "-"}
  THEN [neg |-> t[1] = "-", signed |-> TRUE, body |-> Tail(t)]
  ELSE [neg |-> FALSE, signed |-> FALSE, body |-> t]

\* mantissa [e exponent]
split_exp(body) ==
  LET E == {i \in 1..Len(body) : body[i] \in {"e", "E"}}
  IN  IF E = {} THEN [mant |-> body, has_exp |-> FALSE, expo |-> <<>>]
      ELSE [mant |-> SubSeq(body, 1, Min(E) - 1), has_exp |-> TRUE,
            expo |-> From(body, Min(E) + 1)]

\* digits [. digits]
split_dot(mant) ==
  IF Find(mant, <<".">>) = 0 THEN [ip |-> mant, fp |-> <<>>]
  ELSE [ip |-> SubSeq(mant, 1, Find(mant, <<".">>) - 1),
        fp |-> From(mant, Find(mant, <<".">>) + 1)]

\* bits of the significand of a double
MantissaBits == 53

\* half of the decimal fraction 0.ds (ds a sequence of digit values), one
\* digit longer: digit i takes the odd one of digit i - 1
halve(ds) ==
  [i \in 1..(Len(ds) + 1) |->
     ((IF i > 1 THEN (ds[i - 1] % 2) * 10 ELSE 0) + (IF i <= Len(ds) THEN ds[i] ELSE 0))
     \div 2] \o <<>>

\* the 32 decimal digits of 2^-32 = 0.00000000023283064365386962890625
HalfPow32 ==
  <<0, 0, 0, 0, 0, 0, 0, 0, 0, 2, 3, 2, 8, 3, 0, 6,
    4, 3, 6, 5, 3, 8, 6, 9, 6, 2, 8, 9, 0, 6, 2, 5>>

\* the k decimal digits of 2^-k, k >= 32
RECURSIVE half_pow(_)
half_pow(k) == IF k = Len(HalfPow32) THEN HalfPow32 ELSE halve(half_pow(k - 1))

\* the k decimal digits of 1 - 2^-k
complement(h) ==
  [i \in 1..Len(h) |-> IF i = Len(h) THEN 10 - h[i] ELSE 9 - h[i]] \o <<>>
below_one(k) == complement(half_pow(k))

\* digit i of the fraction 0.a
digit_at(a, i) == IF i <= Len(a) THEN a[i] ELSE 0

\* 0.a >= 0.b, for digit-value sequences a and b: equal, or greater at the
\* first digit that differs
digits_geq(a, b) ==
  LET differ == {i \in 1..Len(b) : digit_at(a, i) # b[i]}
  IN  \/ differ = {}
      \/ differ # {} /\ digit_at(a, Min(differ)) > b[Min(differ)]

RECURSIVE ilog2(_)
ilog2(n) == IF n < 2 THEN 0 ELSE 1 + ilog2(n \div 2)

\* whether the double nearest to n.fp is n + 1.  Every bound 1 - 2^-k this is
\* about starts with nine 9s (k >= 33)
rounds_to_next(n, fp) ==
  /\ Len(fp) >= 9
  /\ \A i \in 1..9 : DigitValue(fp[i]) = 9
  /\ digits_geq([i \in 1..Len(fp) |-> DigitValue(fp[i])] \o <<>>,
                below_one(IF n = 0 THEN MantissaBits + 1 ELSE MantissaBits - ilog2(n)))

\* int(float(.)) of the decimal ip.fp without exponent
int_of_double(ip, fp) == ToNat(ip) + (IF rounds_to_next(ToNat(ip), fp) THEN 1 ELSE 0)

\* a slip that rounds to the nearest whole number (round()) where the code
\* truncates (int())
float_to_int_round(neg, m, has_exp, ex) ==
  IF ~(/\ AllDigits(m.ip) /\ AllDigits(m.fp) /\ Len(m.ip) + Len(m.fp) >= 1
       /\ ~has_exp)
  THEN Raised
  ELSE [ok |-> TRUE,
        value |-> (IF neg THEN 0 - 1 ELSE 1)
                  * (ToNat(m.ip)
                     + (IF m.fp # <<>> /\ DigitValue(m.fp[1]) >= 5 THEN 1 ELSE 0))]

\* the value of mantissa m (split at its point) with exponent digits ex
float_to_int(neg, m, has_exp, ex) ==
  IF ~(/\ AllDigits(m.ip) /\ AllDigits(m.fp) /\ Len(m.ip) + Len(m.fp) >= 1
       /\ has_exp => (ex.body # <<>> /\ AllDigits(ex.body)))
  THEN Raised
  ELSE IF ~has_exp
  THEN [ok |-> TRUE,
        value |-> (IF neg THEN 0 - 1 ELSE 1) * int_of_double(m.ip, m.fp)]
  ELSE LET scale == (IF ex.neg THEN 0 - ToNat(ex.body) ELSE ToNat(ex.body)) - Len(m.fp)
           M == ToNat(m.ip \o m.fp)
           mag == IF scale >= 0 THEN M * Pow10(scale) ELSE M \div Pow10(0 - scale)
       IN  [ok |-> TRUE, value |-> IF neg THEN 0 - mag ELSE mag]

float_parts(neg, x) == float_to_int(neg, split_dot(x.mant), x.has_exp, split_sign(x.expo))

float_signed(s) == float_parts(s.neg, split_exp(s.body))

int_float(text) == float_signed(split_sign(strip(text)))

\* int(float(str(cell).replace(',', '')))
to_int(cell) == int_float(replace(cell, <<",">>))

----------------------------------------------------------------------------
(* load_data: the scan for the data rows *)

\* nrows of the first read
ScanRows == 15

\* data_start_row = None
NoRow == -1

\* prefectures = ['北海道', '青森', '岩手', '宮城', '秋田']
prefectures ==
  { <<"u5317", "u6D77", "u9053">>, <<"u9752", "u68EE">>, <<"u5CA9", "u624B">>,
    <<"u5BAE", "u57CE">>, <<"u79CB", "u7530">> }

\* any(pref in first_col for pref in prefectures)
has_anchor(first_col) == \E pref \in prefectures : Contains(first_col, pref)

\* pd.read_csv(file, nrows=15): the first line of the file is taken as the
\* header, df_raw holds up to 15 of the lines after it
df_raw_of(rows) ==
  SubSeq(rows, 2, IF Len(rows) - 1 < ScanRows THEN Len(rows) ELSE ScanRows + 1)

\* lines 86-93: the index in df_raw of the first row with an anchor in its
\* first cell, None when there is none
scan(dfr) ==
  LET I == {i \in 0..(Len(dfr) - 1) : has_anchor(dfr[i + 1][1])}
  IN  IF I = {} THEN NoRow ELSE Min(I)

\* pd.read_csv(file, skiprows=data_start_row, header=None): the first
\* data_start_row lines of the file are skipped, every later line is a row
df_of(rows, start) == From(rows, start + 1)

----------------------------------------------------------------------------
(* load_data: extraction *)

Sosu == <<"u7DCF", "u6570">>                        \* 総数
Gaikokujin == <<"u5916", "u56FD", "u4EBA">>         \* 外国人
Jitsushukuhakusha == <<"u5B9F", "u5BBF", "u6CCA", "u8005">>  \* 実宿泊者

nationalities ==
  << <<"u97D3", "u56FD">>,
     <<"u4E2D", "u56FD">>,
     <<"u9999", "u6E2F">>,
     <<"u53F0", "u6E7E">>,
     <<"u7C73", "u56FD">>,
     <<"u30AB", "u30CA", "u30C0">>,
     <<"u82F1", "u56FD">>,
     <<"u30C9", "u30A4", "u30C4">>,
     <<"u30D5", "u30E9", "u30F3", "u30B9">>,
     <<"u30ED", "u30B7", "u30A2">>,
     <<"u30B7", "u30F3", "u30AC", "u30DD", "u30FC", "u30EB">>,
     <<"u30BF", "u30A4">>,
     <<"u30DE", "u30EC", "u30FC", "u30B7", "u30A2">>,
     <<"u30A4", "u30F3", "u30C9">>,
     <<"u30AA", "u30FC", "u30B9", "u30C8", "u30E9", "u30EA", "u30A2">> >>

\* df.shape[1] >= 17
MinCols2 == 17

\* df.shape[1] >= 2
MinCols4 == 2

\* the markers of the table kinds, half-width and full-width
Dai2 == <<"u7B2C", "2", "u8868">>                        \* 第2表
Dai2W == <<"u7B2C", "uFF12", "u8868">>                   \* 第２表
Sanko1 == <<"u53C2", "u8003", "u7B2C", "1", "u8868">>    \* 参考第1表
Sanko1W == <<"u53C2", "u8003", "u7B2C", "uFF11", "u8868">>  \* 参考第１表
Dai4 == <<"u7B2C", "4", "u8868">>                        \* 第4表
Dai4W == <<"u7B2C", "uFF14", "u8868">>                   \* 第４表

\* Python truth value of clean_prefecture_name's result: if not prefecture
Falsy(p) == p = None \/ p = <<>>

record(prefecture, value, nationality) ==
  [prefecture |-> prefecture, value |-> value, nationality |-> nationality]

\* a slip that accepts zero and negative values (no v > 0 test)
try_append_any(prefecture, cell, nationality) ==
  LET v == to_int(cell)
  IN  IF v.ok THEN <<record(prefecture, v.value, nationality)>> ELSE <<>>

\* try: v = int(float(...)); if v > 0: all_data.append(...)  except: pass
try_append(prefecture, cell, nationality) ==
  LET v == to_int(cell)
  IN  IF v.ok /\ v.value > 0 THEN <<record(prefecture, v.value, nationality)>> ELSE <<>>

\* str(row[0]).strip(), then clean_prefecture_name
row_prefecture(row) == clean_prefecture_name(strip(row[1]))

\* a slip that puts both conversions of a row in one try block: a failure of
\* column 1 abandons column 16 as well
row_table2_one_try(row) ==
  LET prefecture == row_prefecture(row)
  IN  IF Falsy(prefecture) THEN <<>>
      ELSE IF ~to_int(row[2]).ok THEN <<>>
      ELSE try_append(prefecture, row[2], Sosu)
           \o try_append(prefecture, row[17], Gaikokujin)

\* lines 108-136: one row of a 第2表 table (row[1] and row[16] of the code are
\* the 2nd and 17th cell)
row_table2(row) ==
  LET prefecture == row_prefecture(row)
  IN  IF Falsy(prefecture) THEN <<>>
      ELSE try_append(prefecture, row[2], Sosu)
           \o try_append(prefecture, row[17], Gaikokujin)

\* a slip that leaves the category loop at the first cell that fails to
\* convert (break instead of continue)
RECURSIVE categories_from_break(_, _, _)
categories_from_break(row, prefecture, i) ==
  IF i >= Len(nationalities) THEN <<>>
  ELSE IF i + 2 < Len(row) /\ ~to_int(row[i + 3]).ok THEN <<>>
  ELSE (IF i + 2 < Len(row)
        THEN try_append(prefecture, row[i + 3], nationalities[i + 1])
        ELSE <<>>)
       \o categories_from_break(row, prefecture, i + 1)

\* lines 151-162: the categories i, i+1, ... of one row of a 参考第1表 table
RECURSIVE categories_from(_, _, _)
categories_from(row, prefecture, i) ==
  IF i >= Len(nationalities) THEN <<>>
  ELSE (IF i + 2 < Len(row)
        THEN try_append(prefecture, row[i + 3], nationalities[i + 1])
        ELSE <<>>)
       \o categories_from(row, prefecture, i + 1)

\* lines 145-162: one row of a 参考第1表 table
row_sanko1(row) ==
  LET prefecture == row_prefecture(row)
  IN  IF Falsy(prefecture) THEN <<>> ELSE categories_from(row, prefecture, 0)

\* a slip that gives the record of a 第4表 row the label of the 第2表 total
row_table4_as_total(row) ==
  LET prefecture == row_prefecture(row)
  IN  IF Falsy(prefecture) THEN <<>>
      ELSE try_append(prefecture, row[2], Sosu)

\* lines 168-183: one row of a 第4表 table
row_table4(row) ==
  LET prefecture == row_prefecture(row)
  IN  IF Falsy(prefecture) THEN <<>>
      ELSE try_append(prefecture, row[2], Jitsushukuhakusha)

\* a slip that leaves the row loop (break) at the first row whose region does
\* not clean, where the code goes on to the next row (continue)
RECURSIVE rows_from_stop(_, _, _)
rows_from_stop(df, k, kind) ==
  IF k > Len(df) \/ Falsy(row_prefecture(df[k])) THEN <<>>
  ELSE (CASE kind = "table2" -> row_table2(df[k])
          [] kind = "sanko1" -> row_sanko1(df[k])
          [] kind = "table4" -> row_table4(df[k]))
       \o rows_from_stop(df, k + 1, kind)

\* for _, row in df.iterrows(): the records of rows k, k+1, ... of df
RECURSIVE rows_from(_, _, _)
rows_from(df, k, kind) ==
  IF k > Len(df) THEN <<>>
  ELSE (CASE kind = "table2" -> row_table2(df[k])
          [] kind = "sanko1" -> row_sanko1(df[k])
          [] kind = "table4" -> row_table4(df[k]))
       \o rows_from(df, k + 1, kind)

\* a slip that tests the half-width markers only
kind_of_half_width(filename) ==
  IF Contains(filename, Dai2) THEN "table2"
  ELSE IF Contains(filename, Sanko1) THEN "sanko1"
  ELSE IF Contains(filename, Dai4) THEN "table4"
  ELSE "none"

\* a slip that tests the markers in another order: 第4表 first
kind_of_table4_first(filename) ==
  IF Contains(filename, Dai4) \/ Contains(filename, Dai4W) THEN "table4"
  ELSE IF Contains(filename, Dai2) \/ Contains(filename, Dai2W) THEN "table2"
  ELSE IF Contains(filename, Sanko1) \/ Contains(filename, Sanko1W) THEN "sanko1"
  ELSE "none"

\* the if / elif chain on the file name, lines 105, 139, 165
kind_of(filename) ==
  IF Contains(filename, Dai2) \/ Contains(filename, Dai2W) THEN "table2"
  ELSE IF Contains(filename, Sanko1) \/ Contains(filename, Sanko1W) THEN "sanko1"
  ELSE IF Contains(filename, Dai4) \/ Contains(filename, Dai4W) THEN "table4"
  ELSE "none"

\* df.shape[1]
ncols(df) == Len(df[1])

\* the total column alone, of rows k, k+1, ... of a table with no column 16:
\* the read of row[16] raises inside the try of lines 127-136
RECURSIVE totals_from(_, _)
totals_from(df, k) ==
  IF k > Len(df) THEN <<>>
  ELSE (IF Falsy(row_prefecture(df[k])) THEN <<>>
        ELSE try_append(row_prefecture(df[k]), df[k][2], Sosu))
       \o totals_from(df, k + 1)

\* a slip that leaves out the width test of line 106: the rows of a 第2表 table
\* of fewer than 17 columns are read
extract_no_width_test(filename, df) ==
  LET kind == kind_of(filename)
  IN  CASE kind = "table2" ->
             IF ncols(df) >= MinCols2 THEN rows_from(df, 1, kind)
             ELSE IF ncols(df) >= MinCols4 THEN totals_from(df, 1) ELSE <<>>
        [] kind = "sanko1" -> rows_from(df, 1, kind)
        [] kind = "table4" ->
             IF ncols(df) >= MinCols4 THEN rows_from(df, 1, kind) ELSE <<>>
        [] OTHER -> <<>>

\* lines 104-183: what the file's branch appends to all_data
extract(filename, df) ==
  LET kind == kind_of(filename)
  IN  CASE kind = "table2" ->
             IF ncols(df) >= MinCols2 THEN rows_from(df, 1, kind) ELSE <<>>
        [] kind = "sanko1" -> rows_from(df, 1, kind)
        [] kind = "table4" ->
             IF ncols(df) >= MinCols4 THEN rows_from(df, 1, kind) ELSE <<>>
        [] OTHER -> <<>>

\* line 189: [d for d in all_data if d['prefecture'] and d['value'] > 0]
valid_only(data) == SelectSeq(data, LAMBDA d : ~Falsy(d.prefecture) /\ d.value > 0)

----------------------------------------------------------------------------
(* Inputs: the csv files the runs are checked on *)

\* most files of one directory
MaxFiles == 2

\* title lines above the data rows of the tables whose cells vary
TitleRows == 2

\* the 第4表 tables carry 0..TitleRows title lines, or a number within
\* HeadSlack of the scan window's length
HeadSlack == 1

\* width of the narrow 参考第1表 tables
ShortCols == 6

Todofuken == <<"u90FD", "u9053", "u5E9C", "u770C">>           \* 都道府県
RawHokkaido == <<"u5317", "u6D77", "u9053">>                  \* 北海道
RawAomori == <<"0", "2", "u9752", "u68EE", "u770C">>          \* 02青森県
RawTokyo == <<"1", "3", "u6771", "u4EAC", "u90FD">>           \* 13東京都
RawZenkoku == <<"u5168", "u56FD">>                            \* 全国
RawTokyoW == <<"uFF11", "uFF13", "u6771", "u4EAC", "u90FD">>  \* １３東京都
Tokyo == <<"u6771", "u4EAC", "u90FD">>                        \* 東京都
Aomori == <<"u9752", "u68EE", "u770C">>                       \* 青森県

CsvExt == <<".", "c", "s", "v">>
Name2 == Dai2 \o CsvExt                                       \* 第2表.csv
NameSanko1 == Sanko1 \o CsvExt                                \* 参考第1表.csv
Name4 == Dai4 \o CsvExt                                       \* 第4表.csv
NameOther == <<"u305D", "u306E", "u4ED6">> \o CsvExt          \* その他.csv

Nan == <<"n", "a", "n">>
C12345 == <<"1", "2", ",", "3", "4", "5">>
C100 == <<"1", "0", "0">>
C2000 == <<"2", ",", "0", "0", "0">>
C300 == <<"3", "0", "0">>
Cells == {C12345, <<"0">>, Nan}
BadCells == {Nan, <<"-", "7">>}

\* the decimal text of a number below 100
NumText(n) == <<AsciiDigitSeq[(n \div 10) + 1], AsciiDigitSeq[(n % 10) + 1]>>

\* a title line of n cells
TitleRow(n) == [i \in 1..n |-> IF i = 1 THEN Todofuken ELSE Nan]

\* a 17-cell row of a 第2表 table
Row17(region, c1, c16) ==
  [i \in 1..MinCols2 |-> IF i = 1 THEN region
                         ELSE IF i = 2 THEN c1
                         ELSE IF i = MinCols2 THEN c16
                         ELSE <<"5">>]

\* a 2-cell row of a 第4表 table
Row2(region, c1) == <<region, c1>>

\* an n-cell row of a 参考第1表 table: category i holds 10 + i, but category k
\* holds the text bad
RowSanko(region, n, k, bad) ==
  [i \in 1..n |-> IF i = 1 THEN region
                  ELSE IF i = 2 THEN Nan
                  ELSE IF i = k + 3 THEN bad
                  ELSE NumText(10 + (i - 3))]

MkFile(filename, head, body) ==
  [name |-> filename,
   rows |-> [i \in 1..head |-> TitleRow(Len(body[1]))] \o body]

\* a file with no line: read_csv raises EmptyDataError
EmptyFile(filename) == [name |-> filename, rows |-> <<>>]

ShortHeads == 0..TitleRows
LongHeads == (ScanRows - HeadSlack)..(ScanRows + HeadSlack)

OneRow4 == <<Row2(RawHokkaido, C100)>>
ThreeRows4 ==
  <<Row2(RawTokyo, C2000), Row2(RawHokkaido, C100), Row2(RawAomori, C300)>>

Table4Files ==
  {MkFile(Name4, h, b) : h \in ShortHeads, b \in {OneRow4, ThreeRows4}}
  \cup {MkFile(Name4, h, OneRow4) : h \in LongHeads}
  \cup {EmptyFile(Name4)}

Table2Files ==
  {MkFile(Name2, TitleRows, <<Row17(RawHokkaido, c1, c16)>>) : c1 \in Cells, c16 \in Cells}
  \cup {MkFile(Name2, TitleRows,
               <<Row17(RawHokkaido, C12345, <<"0">>), Row17(RawZenkoku, C100, C100)>>),
        MkFile(Name2, TitleRows,
               <<Row17(RawHokkaido, C12345, <<"0">>), Row17(RawTokyoW, C100, C100)>>)}

BadPositions == {0, 3, Len(nationalities) - 1}

Sanko1Files ==
  {MkFile(NameSanko1, TitleRows,
          <<RowSanko(RawHokkaido, Len(nationalities) + 2, k, bad)>>) :
     k \in BadPositions, bad \in BadCells}
  \cup {MkFile(NameSanko1, TitleRows, <<RowSanko(RawHokkaido, ShortCols, k, Nan)>>) :
          k \in BadPositions}

OtherFiles ==
  { MkFile(NameOther, TitleRows, OneRow4),
    MkFile(NameOther, ScanRows + HeadSlack, OneRow4),
    EmptyFile(NameOther) }

FilePool == Table4Files \cup Table2Files \cup Sanko1Files \cup OtherFiles

\* the files of a directory have different names; glob gives them in any order
RECURSIVE Directories(_)
Directories(n) ==
  IF n = 0 THEN {<<>>}
  ELSE LET shorter == Directories(n - 1)
       IN  shorter \cup
           {Append(d, f) : d \in {e \in shorter : Len(e) = n - 1},
                           f \in FilePool}

DistinctNames(d) == \A i, j \in 1..Len(d) : i # j => d[i].name # d[j].name

\* A second family of directories, in which the file names and the widths of
\* the tables vary
Name2W == Dai2W \o CsvExt                                     \* 第２表.csv
NameSanko1W == Sanko1W \o CsvExt                              \* 参考第１表.csv
Name4W == Dai4W \o CsvExt                                     \* 第４表.csv
Name4and2 == Dai4 \o <<"_">> \o Dai2 \o CsvExt                \* 第4表_第2表.csv
Name4andSanko1 == Dai4 \o <<"_">> \o Sanko1 \o CsvExt         \* 第4表_参考第1表.csv
NameAllW == Sanko1W \o Dai4W \o Dai2W \o CsvExt               \* 参考第１表第４表第２表.csv

VariantNames ==
  { Name2, Name2W, NameSanko1, NameSanko1W, Name4, Name4W, NameOther,
    Name4and2, Name4andSanko1, NameAllW }

\* 北海道運輸局: holds the anchor 北海道, and does not clean to a region
HokkaidoUnyukyoku == RawHokkaido \o <<"u904B", "u8F38", "u5C40">>

\* one 17-cell row, which each of the three branches reads differently
WideBody == <<Row17(RawHokkaido, C12345, C100)>>

\* two data rows under TitleRows + 1 title lines: one row of a region with one
\* value above zero, one row whose first cell is no region
TwoRowFiles ==
  { MkFile(Name2, TitleRows + 1,
           <<Row17(RawHokkaido, C12345, <<"0">>), Row17(RawZenkoku, C100, C100)>>),
    MkFile(Name2, TitleRows + 1,
           <<Row17(HokkaidoUnyukyoku, C100, C100), Row17(RawTokyo, <<"0">>, C2000)>>) }

\* an n-cell row of the region 北海道, 12,345 in its second cell if it has one
NarrowRow(n) ==
  [i \in 1..n |-> IF i = 1 THEN RawHokkaido ELSE IF i = 2 THEN C12345 ELSE <<"5">>]

\* 第2表 tables of fewer than 17 columns, a 第4表 table of one column
NarrowFiles ==
  {MkFile(Name2, TitleRows, <<NarrowRow(n)>>) : n \in {ShortCols, MinCols2 - 1}}
  \cup {MkFile(Name4W, TitleRows, <<NarrowRow(MinCols4 - 1)>>)}

C12345p7 == <<"1", "2", ",", "3", "4", "5", ".", "7">>        \* 12,345.7
CHalf == <<"0", ".", "5">>                                    \* 0.5
\* 0.99999999999999999 (seventeen 9s)
CNearOne == <<"0", ".">> \o [i \in 1..17 |-> "9"]

\* a 第4表 table whose values have fractions
FractionFiles ==
  { MkFile(Name4, TitleRows,
           <<Row2(RawHokkaido, C12345p7), Row2(RawAomori, CHalf), Row2(RawTokyo, CNearOne)>>) }

VariantFiles ==
  {MkFile(n, TitleRows, WideBody) : n \in VariantNames}
  \cup TwoRowFiles
  \cup NarrowFiles
  \cup FractionFiles
  \cup { EmptyFile(NameOther), MkFile(Name4, ScanRows + HeadSlack, OneRow4) }

RECURSIVE VariantDirectories(_)
VariantDirectories(n) ==
  IF n = 0 THEN {<<>>}
  ELSE LET shorter == VariantDirectories(n - 1)
       IN  shorter \cup
           {Append(d, f) : d \in {e \in shorter : Len(e) = n - 1},
                           f \in VariantFiles}

\* texts a direct clean_prefecture_name call is given
RawPrefixes ==
  { <<>>, <<" ">>, <<"1", "3">>, <<"uFF11", "uFF12", "uFF13">>, <<"u3000">> }
RawCores ==
  { Tokyo, RawHokkaido, Aomori, <<"u4EAC", "u90FD", "u5E9C">>,
    <<"u6771", "u4EAC">>,                                   \* 東京
    <<"u9752", "u68EE">>,                                   \* 青森
    <<"u4EE4", "u548C", "5", "u5E74">>,                     \* 令和5年
    <<"u5E73", "u6210", "uFF13", "uFF10", "u5E74">>,        \* 平成３０年
    <<"A">>,
    <<>>,
    RawZenkoku,
    <<"u6771", "u4EAC", "u90FD", "uFF08", "u6CE8", "uFF09">>,  \* 東京都（注）
    <<"1", "u6708">> }                                      \* 1月
RawSuffixes ==
  { <<>>, Shisetsu, Shisetsu \o <<"\n">> \o Tokyo, OyobiUnyukyoku, Kubun47,
    Kubun47 \o <<"uFF09">>, <<" ">> }
RawNames == {a \o b \o c : a \in RawPrefixes, b \in RawCores, c \in RawSuffixes}

----------------------------------------------------------------------------
(* load_data as a state machine *)

\* the state of a run that has not called clean_prefecture_name directly
NoCall == name_in = <<>> /\ name_out = None /\ called = TRUE

\* the state of a run in which the scraper is not used
NoScrape ==
  /\ sc_pc = "off"
  /\ api_data = <<>>
  /\ records = <<>>
  /\ item = 0
  /\ inserted = 0
  /\ updated = 0
  /\ lastrowid = 0
  /\ tourism_data = <<>>
  /\ scraping_log = <<>>
  /\ scrape_returned = <<>>

\* the state of a run in which load_data and clean_prefecture_name are not used
NoLoad ==
  /\ pc = "off"
  /\ files = <<>>
  /\ idx = 0
  /\ data_start_row = NoRow
  /\ all_data = <<>>
  /\ result = <<>>
  /\ returned = <<>>
  /\ NoCall

\* the state of a run in which the calculator is not used
NoCalc ==
  /\ result_value = [type |-> "str", val |-> 0, text |-> <<>>]
  /\ operator = ""
  /\ operand1 = [type |-> "int", val |-> 0, text |-> <<>>]
  /\ new_operand = FALSE
  /\ after_error = FALSE
  /\ raised = FALSE
  /\ entered = <<>>
  /\ recording = FALSE

\* the state of a run in which the weather cache is not used
NoWeather ==
  /\ tables = [areas |-> {}, report_info |-> <<>>, forecasts |-> <<>>]
  /\ committed = [areas |-> {}, report_info |-> <<>>, forecasts |-> <<>>]
  /\ in_transaction = FALSE
  /\ wx_last = [op |-> "off", area_code |-> "", response |-> "unasked", raised |-> FALSE,
                saved |-> <<>>, ret |-> <<>>]
  /\ served = {}

Init ==
  /\ pc = "start"
  /\ files \in {d \in Directories(MaxFiles) : DistinctNames(d)}
  /\ idx = 0
  /\ data_start_row = NoRow
  /\ all_data = <<>>
  /\ result = <<>>
  /\ returned = <<>>
  /\ NoScrape
  /\ NoCalc
  /\ NoWeather
  /\ NoCall

\* the for loop goes to its next file, or ends.  data_start_row is assigned
\* again (line 86) before it is next read; the model clears it here
advance ==
  /\ idx' = idx + 1
  /\ pc' = IF idx + 1 > Len(files) THEN "finish" ELSE "read"
  /\ data_start_row' = NoRow

\* lines 66-75: nothing to read, return []
ReturnEmpty ==
  /\ pc = "start"
  /\ files = <<>>
  /\ result' = <<>>
  /\ returned' = Append(returned, <<>>)
  /\ pc' = "done"
  /\ UNCHANGED <<files, idx, data_start_row, all_data, name_in, name_out, called>>
  /\ UNCHANGED <<scraper_vars, calc_vars, weather_vars>>

\* a slip that keeps all_data outside the function (a module-level list that
\* line 79 does not empty): a call starts from the records of the call before
EnterLoop_keeps_all_data ==
  /\ pc = "start"
  /\ files # <<>>
  /\ idx' = 1
  /\ pc' = "read"
  /\ UNCHANGED <<files, data_start_row, all_data, result, name_in, name_out, called,
                 returned>>
  /\ UNCHANGED <<scraper_vars, calc_vars, weather_vars>>

\* lines 77-81: all_data = [], enter the loop
EnterLoop ==
  /\ pc = "start"
  /\ files # <<>>
  /\ all_data' = <<>>
  /\ idx' = 1
  /\ pc' = "read"
  /\ UNCHANGED <<files, data_start_row, result, name_in, name_out, called, returned>>
  /\ UNCHANGED <<scraper_vars, calc_vars, weather_vars>>

\* a slip that catches the error outside the for loop: the first file that
\* cannot be read ends the loop
ReadFails_outside_loop ==
  /\ pc = "read"
  /\ files[idx].rows = <<>>
  /\ pc' = "finish"
  /\ idx' = Len(files) + 1
  /\ data_start_row' = NoRow
  /\ UNCHANGED <<files, all_data, result, name_in, name_out, called, returned>>
  /\ UNCHANGED <<scraper_vars, calc_vars, weather_vars>>

\* line 84 raises (the file cannot be read): lines 185-186 print, next file
ReadFails ==
  /\ pc = "read"
  /\ files[idx].rows = <<>>
  /\ advance
  /\ UNCHANGED <<files, all_data, result, name_in, name_out, called, returned>>
  /\ UNCHANGED <<scraper_vars, calc_vars, weather_vars>>

\* lines 84-93: first read and scan
Locate ==
  /\ pc = "read"
  /\ files[idx].rows # <<>>
  /\ data_start_row' = scan(df_raw_of(files[idx].rows))
  /\ pc' = "located"
  /\ UNCHANGED <<files, idx, all_data, result, name_in, name_out, called, returned>>
  /\ UNCHANGED <<scraper_vars, calc_vars, weather_vars>>

\* lines 95-96: no data row, continue
SkipFile ==
  /\ pc = "located"
  /\ data_start_row = NoRow
  /\ advance
  /\ UNCHANGED <<files, all_data, result, name_in, name_out, called, returned>>
  /\ UNCHANGED <<scraper_vars, calc_vars, weather_vars>>

\* a slip that lets an error of the second row's cells reach the except of
\* line 185: the file is left with the records appended so far, those of its
\* first record
Extract_abandoned ==
  /\ pc = "located"
  /\ data_start_row # NoRow
  /\ LET found == extract(files[idx].name, df_of(files[idx].rows, data_start_row))
     IN  all_data' = all_data \o (IF found = <<>> THEN <<>> ELSE <<found[1]>>)
  /\ advance
  /\ UNCHANGED <<files, result, name_in, name_out, called, returned>>
  /\ UNCHANGED <<scraper_vars, calc_vars, weather_vars>>

\* lines 99-183: second read and the branch of the file's table kind
Extract ==
  /\ pc = "located"
  /\ data_start_row # NoRow
  /\ all_data' = all_data
                 \o extract(files[idx].name, df_of(files[idx].rows, data_start_row))
  /\ advance
  /\ UNCHANGED <<files, result, name_in, name_out, called, returned>>
  /\ UNCHANGED <<scraper_vars, calc_vars, weather_vars>>

\* the records of data from position k on, but those whose prefecture and
\* nationality an earlier record of data has
RECURSIVE first_of_pair_from(_, _)
first_of_pair_from(data, k) ==
  IF k > Len(data) THEN <<>>
  ELSE (IF \E j \in 1..(k - 1) : /\ data[j].prefecture = data[k].prefecture
                                  /\ data[j].nationality = data[k].nationality
        THEN <<>> ELSE <<data[k]>>)
       \o first_of_pair_from(data, k + 1)

\* a slip that returns one record for a pair of prefecture and nationality
Finish_one_per_pair ==
  /\ pc = "finish"
  /\ all_data' = valid_only(all_data)
  /\ result' = first_of_pair_from(valid_only(all_data), 1)
  /\ returned' = Append(returned, first_of_pair_from(valid_only(all_data), 1))
  /\ pc' = "done"
  /\ UNCHANGED <<files, idx, data_start_row, name_in, name_out, called>>
  /\ UNCHANGED <<scraper_vars, calc_vars, weather_vars>>

\* lines 189-192: the final filter, return
Finish ==
  /\ pc = "finish"
  /\ all_data' = valid_only(all_data)
  /\ result' = valid_only(all_data)
  /\ returned' = Append(returned, valid_only(all_data))
  /\ pc' = "done"
  /\ UNCHANGED <<files, idx, data_start_row, name_in, name_out, called>>
  /\ UNCHANGED <<scraper_vars, calc_vars, weather_vars>>

Next ==
  \/ ReturnEmpty
  \/ EnterLoop
  \/ ReadFails
  \/ Locate
  \/ SkipFile
  \/ Extract
  \/ Finish

Spec == Init /\ [][Next]_vars

\* the same run over the directories of the second family
InitVariants ==
  /\ pc = "start"
  /\ files \in {d \in VariantDirectories(MaxFiles) : DistinctNames(d)}
  /\ idx = 0
  /\ data_start_row = NoRow
  /\ all_data = <<>>
  /\ result = <<>>
  /\ returned = <<>>
  /\ NoScrape
  /\ NoCalc
  /\ NoWeather
  /\ NoCall

SpecVariants == InitVariants /\ [][Next]_vars

\* most load_data calls of one run
MaxCalls == 2

\* lines 198, 211, 223, 245: a request handler calls load_data again, on the
\* same csv_output directory.  The call starts with no local of the call before
\* it but what the model's variables still hold: all_data is assigned anew by
\* line 79, data_start_row by line 86
CallAgain ==
  /\ pc = "done"
  /\ Len(returned) < MaxCalls
  /\ pc' = "start"
  /\ idx' = 0
  /\ data_start_row' = NoRow
  /\ UNCHANGED <<files, all_data, result, name_in, name_out, called, returned>>
  /\ UNCHANGED <<scraper_vars, calc_vars, weather_vars>>

NextCalls == Next \/ CallAgain

SpecCalls == Init /\ [][NextCalls]_vars

----------------------------------------------------------------------------
(* a direct call of clean_prefecture_name *)

InitClean ==
  /\ pc = "idle"
  /\ files = <<>>
  /\ idx = 0
  /\ data_start_row = NoRow
  /\ all_data = <<>>
  /\ result = <<>>
  /\ name_in \in RawNames
  /\ name_out = None
  /\ called = FALSE
  /\ returned = <<>>
  /\ NoScrape
  /\ NoCalc
  /\ NoWeather

CleanCall ==
  /\ ~called
  /\ name_out' = clean_prefecture_name(name_in)
  /\ called' = TRUE
  /\ UNCHANGED <<pc, files, idx, data_start_row, all_data, result, name_in, returned>>
  /\ UNCHANGED <<scraper_vars, calc_vars, weather_vars>>

NextClean == CleanCall

SpecClean == InitClean /\ [][NextClean]_vars

\* direct calls on the whitelist names and on the other texts, and calls on
\* what a call has returned
InitCleanAgain ==
  /\ pc = "idle"
  /\ files = <<>>
  /\ idx = 0
  /\ data_start_row = NoRow
  /\ all_data = <<>>
  /\ result = <<>>
  /\ name_in \in ValidSet \cup RawNames
  /\ name_out = None
  /\ called = FALSE
  /\ returned = <<>>
  /\ NoScrape
  /\ NoCalc
  /\ NoWeather

\* clean_prefecture_name is called on the name the call before it returned
CleanAgain ==
  /\ called
  /\ name_out # None
  /\ name_in' = name_out
  /\ name_out' = clean_prefecture_name(name_out)
  /\ UNCHANGED <<pc, files, idx, data_start_row, all_data, result, called, returned>>
  /\ UNCHANGED <<scraper_vars, calc_vars, weather_vars>>

NextCleanAgain == CleanCall \/ CleanAgain

SpecCleanAgain == InitCleanAgain /\ [][NextCleanAgain]_vars

----------------------------------------------------------------------------
(* scrape_data of スクレイピング/scraper.py, on the database that init_database
   has made: the tables tourism_data (prefecture, nationality, value, month;
   UNIQUE(prefecture, nationality, month)) and scraping_log (records_added,
   status).  The columns id, scraped_at and message are left out.
   An item of the API's list is a record with the keys it has: an item with no
   key month is stored with month NULL.  A column value x is <<x>>, NULL is <<>>. *)

Null == <<>>
Some(x) == <<x>>

\* item.get(key), as a column value
get(it, key) == IF key \in DOMAIN it THEN Some(it[key]) ELSE Null

\* most scrape_data calls of one run
MaxRuns == 2

\* most records of the API's list
MaxRecords == 2

\* the items the API's list is made of: 北海道 and 東京都, with and without a
\* month, and an item that has no value
ItemPool ==
  {[prefecture |-> RawHokkaido, nationality |-> Sosu, value |-> v] : v \in {100, 200}}
  \cup {[prefecture |-> RawHokkaido, nationality |-> Sosu, value |-> v, month |-> 1] :
          v \in {100, 200}}
  \cup {[prefecture |-> Tokyo, nationality |-> Sosu, value |-> 100],
        [prefecture |-> Tokyo, nationality |-> Sosu]}

RECURSIVE RecordLists(_)
RecordLists(n) ==
  IF n = 0 THEN {<<>>}
  ELSE LET shorter == RecordLists(n - 1)
       IN  shorter \cup
           {Append(l, it) : l \in {e \in shorter : Len(e) = n - 1}, it \in ItemPool}

\* lines 80-85: the row the INSERT of an item would add
new_row(it) ==
  [prefecture |-> get(it, "prefecture"), nationality |-> get(it, "nationality"),
   value |-> get(it, "value"), month |-> get(it, "month")]

\* item['prefecture'], item['nationality'] or item['value'] raises KeyError,
\* or a NOT NULL column would be NULL (lines 22-24): the except of line 92
insert_raises(it) ==
  \E key \in {"prefecture", "nationality", "value"} : get(it, key) = Null

\* UNIQUE(prefecture, nationality, month), line 29: the row the new row is in
\* conflict with.  SQLite takes every NULL as different from every other NULL
\* in a UNIQUE constraint, so a row with month NULL is in conflict with none
conflicts(row, new) ==
  /\ row.prefecture = new.prefecture
  /\ row.nationality = new.nationality
  /\ row.month # Null
  /\ new.month # Null
  /\ row.month = new.month

\* lines 80-85: INSERT ... ON CONFLICT(prefecture, nationality, month) DO
\* UPDATE SET value=excluded.value
upsert(table, new) ==
  IF \E i \in 1..Len(table) : conflicts(table[i], new)
  THEN [i \in 1..Len(table) |->
          IF conflicts(table[i], new) THEN [table[i] EXCEPT !.value = new.value]
          ELSE table[i]]
  ELSE Append(table, new)

InitScrape ==
  /\ pc = "off"
  /\ files = <<>>
  /\ idx = 0
  /\ data_start_row = NoRow
  /\ all_data = <<>>
  /\ result = <<>>
  /\ returned = <<>>
  /\ NoCall
  /\ NoCalc
  /\ NoWeather
  /\ sc_pc = "idle"
  /\ api_data \in RecordLists(MaxRecords)
  /\ records = <<>>
  /\ item = 0
  /\ inserted = 0
  /\ updated = 0
  /\ lastrowid = 0
  /\ tourism_data = <<>>
  /\ scraping_log = <<>>
  /\ scrape_returned = <<>>

\* lines 109-124: requests.get raises ConnectionError; the error is logged,
\* return False
ConnectFails ==
  /\ sc_pc = "idle"
  /\ Len(scrape_returned) < MaxRuns
  /\ scraping_log' = Append(scraping_log, [records_added |-> 0, status |-> "error"])
  /\ scrape_returned' = Append(scrape_returned, FALSE)
  /\ UNCHANGED <<sc_pc, api_data, records, item, inserted, updated, lastrowid,
                 tourism_data>>
  /\ UNCHANGED <<app_vars, calc_vars, weather_vars>>

\* a slip: the handler of line 126 returns False without writing the log row
RequestFails_unlogged ==
  /\ sc_pc = "idle"
  /\ Len(scrape_returned) < MaxRuns
  /\ scrape_returned' = Append(scrape_returned, FALSE)
  /\ UNCHANGED <<sc_pc, api_data, records, item, inserted, updated, lastrowid,
                 tourism_data, scraping_log>>
  /\ UNCHANGED <<app_vars, calc_vars, weather_vars>>

\* lines 56-63 and 126-140: the status code is not 200 (app.py answers 404
\* when it has no data, lines 225-231), or the status of the body is not
\* 'success', or the request times out; the error is logged, return False
RequestFails ==
  /\ sc_pc = "idle"
  /\ Len(scrape_returned) < MaxRuns
  /\ scraping_log' = Append(scraping_log, [records_added |-> 0, status |-> "error"])
  /\ scrape_returned' = Append(scrape_returned, FALSE)
  /\ UNCHANGED <<sc_pc, api_data, records, item, inserted, updated, lastrowid,
                 tourism_data>>
  /\ UNCHANGED <<app_vars, calc_vars, weather_vars>>

\* lines 53-73: the response is the API's list; a connection is opened
Fetch ==
  /\ sc_pc = "idle"
  /\ Len(scrape_returned) < MaxRuns
  /\ api_data # <<>>
  /\ records' = api_data
  /\ item' = 1
  /\ inserted' = 0
  /\ updated' = 0
  /\ lastrowid' = 0
  /\ sc_pc' = "store"
  /\ UNCHANGED <<api_data, tourism_data, scraping_log, scrape_returned>>
  /\ UNCHANGED <<app_vars, calc_vars, weather_vars>>

\* lines 75-93, the item raises: printed, next item
StoreRaises ==
  /\ sc_pc = "store"
  /\ item <= Len(records)
  /\ insert_raises(records[item])
  /\ item' = item + 1
  /\ UNCHANGED <<sc_pc, api_data, records, inserted, updated, lastrowid, tourism_data,
                 scraping_log, scrape_returned>>
  /\ UNCHANGED <<app_vars, calc_vars, weather_vars>>

\* lines 75-93: one item is stored.  rowcount is 1; lastrowid is that of the
\* connection's last inserted row, and stays 0 over an update
Store ==
  /\ sc_pc = "store"
  /\ item <= Len(records)
  /\ ~insert_raises(records[item])
  /\ tourism_data' = upsert(tourism_data, new_row(records[item]))
  /\ lastrowid' = IF Len(tourism_data') > Len(tourism_data) THEN Len(tourism_data')
                  ELSE lastrowid
  /\ inserted' = IF lastrowid' # 0 THEN inserted + 1 ELSE inserted
  /\ updated' = IF lastrowid' # 0 THEN updated ELSE updated + 1
  /\ item' = item + 1
  /\ UNCHANGED <<sc_pc, api_data, records, scraping_log, scrape_returned>>
  /\ UNCHANGED <<app_vars, calc_vars, weather_vars>>

\* lines 95-107: the log row, commit, return True
LogSuccess ==
  /\ sc_pc = "store"
  /\ item > Len(records)
  /\ scraping_log' =
       Append(scraping_log, [records_added |-> inserted, status |-> "success"])
  /\ scrape_returned' = Append(scrape_returned, TRUE)
  /\ sc_pc' = "idle"
  /\ UNCHANGED <<api_data, records, item, inserted, updated, lastrowid, tourism_data>>
  /\ UNCHANGED <<app_vars, calc_vars, weather_vars>>

NextScrape ==
  \/ ConnectFails
  \/ RequestFails
  \/ Fetch
  \/ StoreRaises
  \/ Store
  \/ LogSuccess

SpecScrape == InitScrape /\ [][NextScrape]_vars

----------------------------------------------------------------------------
(* The calculator: CalculatorApp of lecture-4/calculator/src/calc.py.

   Numbers.  A number is kept as its multiple of 1/Scale, Scale a power of
   two: on such numbers of small size the double arithmetic of the code is
   exact.  A press whose number is no such multiple within MaxValue (1/3, the
   square root of 2, e) is not followed.

   Values.  self.result.value and self.operand1 hold a str, or the int or the
   float the code has assigned: [type, val, text], val the number of an int or
   float, text the characters of a str. *)

\* binary digits after the point
FracBits == 1

\* largest size of the numbers followed
MaxValue == 12

\* largest length of the text typed into the display
MaxText == 2

\* largest number of presses of a recorded session
MaxPresses == 6

RECURSIVE Pow2(_)
Pow2(n) == IF n = 0 THEN 1 ELSE 2 * Pow2(n - 1)

Scale == Pow2(FracBits)

InRange(v) == -(MaxValue * Scale) <= v /\ v <= MaxValue * Scale

Abs(v) == IF v < 0 THEN -v ELSE v

Str(t) == [type |-> "str", val |-> 0, text |-> t]
IntOf(v) == [type |-> "int", val |-> v, text |-> <<>>]
FloatOf(v) == [type |-> "float", val |-> v, text |-> <<>>]

Error == Str(<<"E", "r", "r", "o", "r">>)

\* str(math.pi)
PiText == <<"3", ".", "1", "4", "1", "5", "9", "2", "6", "5", "3", "5", "8", "9", "7", "9", "3">>

\* the data of the buttons (lines 62-115), "u03C0" that of the button π; of
\* the digits 1-9 the model presses one
DigitKeys == {"0", "2", "."}
OperatorKeys == {"+", "-", "*", "/"}
Keys ==
  DigitKeys \cup OperatorKeys
    \cup {"AC", "=", "%", "+/-", "sqrt", "^2", "1/x", "exp", "u03C0"}

\* the outcomes of float(x): a ValueError, a number the model follows, or another number
NotFloat == [ok |-> FALSE, exact |-> FALSE, val |-> 0]
OtherFloat == [ok |-> TRUE, exact |-> FALSE, val |-> 0]
Exactly(v) == [ok |-> TRUE, exact |-> TRUE, val |-> v]

\* v, when it is a number the model follows
Within(v) == IF InRange(v) THEN Exactly(v) ELSE OtherFloat

\* float(text) of a text of digits, points and a sign: [sign] digits [. digits]
\* with a digit on one side of the point at least
float_of_text(t) ==
  LET s == split_sign(t)
      d == split_dot(s.body)
      n == ToNat(d.ip \o d.fp) * Scale
      p == Pow10(Len(d.fp))
  IN  IF t = PiText THEN OtherFloat
      ELSE IF ~(AllDigits(d.ip) /\ AllDigits(d.fp) /\ Len(d.ip) + Len(d.fp) > 0)
      THEN NotFloat
      ELSE IF n % p # 0 THEN OtherFloat
      ELSE Within(IF s.neg THEN -(n \div p) ELSE n \div p)

\* float(x)
float_of(x) == IF x.type = "str" THEN float_of_text(x.text) ELSE Exactly(x.val)

\* str(n) of a natural number
RECURSIVE nat_text(_)
nat_text(n) ==
  IF n < 10 THEN <<AsciiDigitSeq[n + 1]>>
  ELSE nat_text(n \div 10) \o <<AsciiDigitSeq[(n % 10) + 1]>>

\* the digits after the point of r/Scale, 0 < r < Scale: FracBits digits with
\* the zeros at the end removed
RECURSIVE drop_zeros(_)
drop_zeros(ds) ==
  IF Len(ds) > 1 /\ ds[Len(ds)] = "0" THEN drop_zeros(SubSeq(ds, 1, Len(ds) - 1)) ELSE ds

RECURSIVE pad(_, _)
pad(ds, n) == IF Len(ds) >= n THEN ds ELSE pad(<<"0">> \o ds, n)

fraction_text(r) ==
  IF r = 0 THEN <<"0">>
  ELSE drop_zeros(pad(nat_text((r * Pow10(FracBits)) \div Scale), FracBits))

\* str(x): the text itself, the digits of an int, the shortest decimal that
\* reads back as the float
str(x) ==
  IF x.type = "str" THEN x.text
  ELSE (IF x.val < 0 THEN <<"-">> ELSE <<>>)
         \o nat_text(Abs(x.val) \div Scale)
         \o (IF x.type = "int" THEN <<>>
             ELSE <<".">> \o fraction_text(Abs(x.val) % Scale))

\* lines 233-237
format_number(v) == IF v % Scale = 0 THEN IntOf(v) ELSE FloatOf(v)

\* operand1 + operand2 and so on, on multiples of 1/Scale; no value when the
\* result is no such multiple
arith(a, b, op) ==
  IF op = "+" THEN Some(a + b)
  ELSE IF op = "-" THEN Some(a - b)
  ELSE IF op = "*" THEN (IF (a * b) % Scale = 0 THEN Some((a * b) \div Scale) ELSE Null)
  ELSE IF (Abs(a) * Scale) % Abs(b) # 0 THEN Null
  ELSE Some((IF (a < 0) = (b < 0) THEN 1 ELSE -1) * ((Abs(a) * Scale) \div Abs(b)))

\* whether the model follows calculate(operand1, operand2, operator)
calculate_followed(a, b, op) ==
  \/ op = "/" /\ b = 0
  \/ /\ ~(op = "/" /\ b = 0)
     /\ arith(a, b, op) # Null
     /\ InRange(arith(a, b, op)[1])

\* a slip: the operands are taken in the other order
calculate_swapped(a, b, op) ==
  IF op = "/" /\ b = 0 THEN Error
  ELSE IF op = "-" THEN format_number(b - a)
  ELSE format_number(arith(a, b, op)[1])

\* lines 240-255
calculate(a, b, op) ==
  IF op = "/" /\ b = 0 THEN Error
  ELSE format_number(arith(a, b, op)[1])

\* lines 41-46: reset(), and the display shows "0"
CalcConstructed ==
  /\ result_value = Str(<<"0">>)
  /\ operator = "+"
  /\ operand1 = IntOf(0)
  /\ new_operand = TRUE
  /\ after_error = FALSE
  /\ raised = FALSE
  /\ entered = <<>>

InitCalc ==
  /\ NoLoad
  /\ NoScrape
  /\ CalcConstructed
  /\ NoWeather
  /\ recording = FALSE

\* lines 123-127: the button pressed, and what the display shows when it is
\* pressed; a recorded session keeps the presses
Clicked(d) ==
  /\ recording => Len(entered) < MaxPresses
  /\ after_error' = (result_value = Error)
  /\ entered' = IF recording THEN Append(entered, d) ELSE entered
  /\ UNCHANGED recording
  /\ UNCHANGED <<app_vars, scraper_vars, weather_vars>>

\* the handler has returned (line 230)
Returns == raised' = FALSE

\* lines 258-261
reset ==
  /\ operator' = "+"
  /\ operand1' = IntOf(0)
  /\ new_operand' = TRUE

\* the display does not show "Error" and the button is not AC: the branches
\* after the first
Later(d) == result_value # Error /\ d # "AC"

\* a slip: after "Error" the display is cleared and the state is kept
Clear_keeps_state(d) ==
  /\ result_value = Error \/ d = "AC"
  /\ Clicked(d)
  /\ result_value' = Str(<<"0">>)
  /\ IF d = "AC" THEN reset ELSE UNCHANGED <<operator, operand1, new_operand>>
  /\ Returns

\* lines 127-129
Clear(d) ==
  /\ result_value = Error \/ d = "AC"
  /\ Clicked(d)
  /\ result_value' = Str(<<"0">>)
  /\ reset
  /\ Returns

\* lines 132-139; the value shown is a str whenever a digit is added to it
Digit(d) ==
  /\ Later(d)
  /\ d \in DigitKeys
  /\ IF result_value = Str(<<"0">>) \/ new_operand
     THEN /\ result_value' = Str(<<d>>)
          /\ new_operand' = FALSE
     ELSE /\ result_value.type = "str"
          /\ Len(result_value.text) < MaxText
          /\ result_value' = Str(result_value.text \o <<d>>)
          /\ UNCHANGED new_operand
  /\ Clicked(d)
  /\ UNCHANGED <<operator, operand1>>
  /\ Returns

\* lines 142-157
Operator(d) ==
  /\ Later(d)
  /\ d \in OperatorKeys
  /\ float_of(result_value).exact
  /\ operand1.type # "str"
  /\ calculate_followed(operand1.val, float_of(result_value).val, operator)
  /\ result_value' = calculate(operand1.val, float_of(result_value).val, operator)
  /\ operator' = d
  /\ operand1' = IF result_value' = Error THEN Str(<<"0">>)
                 ELSE FloatOf(float_of(result_value').val)
  /\ new_operand' = TRUE
  /\ Clicked(d)
  /\ Returns

\* lines 159-162
Equals ==
  /\ Later("=")
  /\ float_of(result_value).exact
  /\ operand1.type # "str"
  /\ calculate_followed(operand1.val, float_of(result_value).val, operator)
  /\ result_value' = calculate(operand1.val, float_of(result_value).val, operator)
  /\ reset
  /\ Clicked("=")
  /\ Returns

\* lines 165-168: the quotient is shown as the float it is
Percent ==
  /\ Later("%")
  /\ float_of(result_value).exact
  /\ float_of(result_value).val % 100 = 0
  /\ result_value' = FloatOf(float_of(result_value).val \div 100)
  /\ reset
  /\ Clicked("%")
  /\ Returns

\* lines 171-177
Negate ==
  /\ Later("+/-")
  /\ float_of(result_value).exact
  /\ result_value' =
       IF float_of(result_value).val > 0 THEN Str(<<"-">> \o str(result_value))
       ELSE IF float_of(result_value).val < 0
            THEN Str(str(format_number(Abs(float_of(result_value).val))))
            ELSE result_value
  /\ Clicked("+/-")
  /\ UNCHANGED <<operator, operand1, new_operand>>
  /\ Returns

\* math.sqrt(v/Scale) as a multiple of 1/Scale, none when it is no such multiple
sqrt(v) ==
  LET R == {w \in 0..(MaxValue * Scale) : w * w = v * Scale}
  IN  IF R = {} THEN Null ELSE Some(CHOOSE w \in R : TRUE)

\* lines 182-191: the ValueError of float() is caught
Sqrt ==
  /\ Later("sqrt")
  /\ LET num == float_of(result_value)
     IN  IF ~num.ok THEN result_value' = Error
         ELSE /\ num.exact
              /\ IF num.val < 0 THEN result_value' = Error
                 ELSE /\ sqrt(num.val) # Null
                      /\ result_value' = Str(str(format_number(sqrt(num.val)[1])))
  /\ Clicked("sqrt")
  /\ UNCHANGED <<operator, operand1, new_operand>>
  /\ Returns

\* lines 194-200
Square ==
  /\ Later("^2")
  /\ LET num == float_of(result_value)
     IN  IF ~num.ok THEN result_value' = Error
         ELSE /\ num.exact
              /\ arith(num.val, num.val, "*") # Null
              /\ InRange(arith(num.val, num.val, "*")[1])
              /\ result_value' = Str(str(format_number(arith(num.val, num.val, "*")[1])))
  /\ Clicked("^2")
  /\ UNCHANGED <<operator, operand1, new_operand>>
  /\ Returns

\* lines 203-212
Reciprocal ==
  /\ Later("1/x")
  /\ LET num == float_of(result_value)
     IN  IF ~num.ok THEN result_value' = Error
         ELSE /\ num.exact
              /\ IF num.val = 0 THEN result_value' = Error
                 ELSE /\ arith(Scale, num.val, "/") # Null
                      /\ result_value' = Str(str(format_number(arith(Scale, num.val, "/")[1])))
  /\ Clicked("1/x")
  /\ UNCHANGED <<operator, operand1, new_operand>>
  /\ Returns

\* lines 215-221: of the powers of e only e^0 = 1 is a number the model follows
Exp ==
  /\ Later("exp")
  /\ LET num == float_of(result_value)
     IN  IF ~num.ok THEN result_value' = Error
         ELSE /\ num.exact
              /\ num.val = 0
              /\ result_value' = Str(str(format_number(Scale)))
  /\ Clicked("exp")
  /\ UNCHANGED <<operator, operand1, new_operand>>
  /\ Returns

\* lines 224-227
PiKey ==
  /\ Later("u03C0")
  /\ result_value' = Str(PiText)
  /\ new_operand' = TRUE
  /\ Clicked("u03C0")
  /\ UNCHANGED <<operator, operand1>>
  /\ Returns

\* the press raises an exception that no handler catches: float() of the value
\* shown (lines 144, 161, 167, 172), calculate on a first operand that is a str
\* (lines 144, 161), a digit added to a number (line 139)
raises(d) ==
  /\ Later(d)
  /\ \/ /\ d \in OperatorKeys \cup {"=", "%", "+/-"}
        /\ ~float_of(result_value).ok
     \/ /\ d \in OperatorKeys \cup {"="}
        /\ float_of(result_value).ok
        /\ operand1.type = "str"
     \/ /\ d \in DigitKeys
        /\ ~(result_value = Str(<<"0">>) \/ new_operand)
        /\ result_value.type # "str"

\* the exception leaves the handler before anything is assigned
Raise(d) ==
  /\ raises(d)
  /\ Clicked(d)
  /\ raised' = TRUE
  /\ UNCHANGED <<result_value, operator, operand1, new_operand>>

NextCalc ==
  \/ \E d \in Keys : Clear(d)
  \/ \E d \in DigitKeys : Digit(d)
  \/ \E d \in OperatorKeys : Operator(d)
  \/ Equals
  \/ Percent
  \/ Negate
  \/ Sqrt
  \/ Square
  \/ Reciprocal
  \/ Exp
  \/ PiKey
  \/ \E d \in Keys : Raise(d)

SpecCalc == InitCalc /\ [][NextCalc]_vars

\* a recorded session of digits, operators and "="
EntryDigits == {"0", "2"}

InitEntry ==
  /\ NoLoad
  /\ NoScrape
  /\ CalcConstructed
  /\ NoWeather
  /\ recording = TRUE

NextEntry ==
  \/ \E d \in EntryDigits : Digit(d)
  \/ \E d \in OperatorKeys : Operator(d)
  \/ Equals
  \/ \E d \in EntryDigits \cup OperatorKeys \cup {"="} : Clear(d)

SpecEntry == InitEntry /\ [][NextEntry]_vars

----------------------------------------------------------------------------
(* The weather cache: WeatherAPI of lecture-6/weather-forcast/src/api/weather_api.py
   on the WeatherDatabase of lecture-5/weather-forcast/src/db/weather_database.py
   and the APIClient of lecture-5/weather-forcast/src/api/api_client.py.

   One WeatherAPI object, its calls one after the other.  The database is the
   three tables as the object's one connection sees them, with the rows of an
   open transaction.

   Text.  A forecast date is <<day, time>>: day stands for the first 10
   characters (YYYY-MM-DD), time for the rest, and the order of the texts is
   the order of the pairs.  Its first 10 characters are <<day>>.  A report
   time is a number, later reports having higher numbers. *)

\* largest number of rows of report_info
MaxReportRows == 3

\* the offices of the area list
AreaCodes == {"130000", "270000"}

\* '不明'
Unknown == "u4E0Du660E"

\* date[:10]
first10(date) == SubSeq(date, 1, 1)

\* s < t for texts of dates
RECURSIVE DateLess(_, _)
DateLess(s, t) ==
  IF t = <<>> THEN FALSE
  ELSE IF s = <<>> THEN TRUE
  ELSE IF Head(s) # Head(t) THEN Head(s) < Head(t)
  ELSE DateLess(Tail(s), Tail(t))

\* no weather code: null in the JSON
NoCode == "<null>"

\* the documents of the forecast API (forecast_data[0]): reportDatetime (0 when
\* there is none), whether there is a publishingOffice, the number of
\* timeSeries entries, and of timeSeries[0] the timeDefines and the areas
Area(name, codes, weathers) == [name |-> name, weatherCodes |-> codes, weathers |-> weathers]

Doc(report, series, defines, areas) ==
  [reportDatetime |-> report, publishingOffice |-> TRUE, timeSeries |-> series,
   timeDefines |-> defines, areas |-> areas]

\* two forecasts on the second day
ValidDoc ==
  Doc(1, 1, <<<<1, 11>>, <<2, 0>>, <<2, 6>>>>,
      <<Area("A", <<"100", "200", "300">>, <<"s", "c", "r">>)>>)

\* two areas, the dates not in order
TwoAreasDoc ==
  Doc(2, 1, <<<<2, 0>>, <<1, 17>>>>,
      <<Area("A", <<"100", "200">>, <<"s", "c">>),
        Area("B", <<"101", "201">>, <<"s", "r">>)>>)

NoReportDoc == [ValidDoc EXCEPT !.reportDatetime = 0]
NoOfficeDoc == [ValidDoc EXCEPT !.publishingOffice = FALSE]
NoTimeSeriesDoc == Doc(1, 0, <<>>, <<>>)
NoTimeDefinesDoc == Doc(2, 1, <<>>, <<Area("A", <<"100">>, <<"s">>)>>)

\* the second weather code is null: its INSERT violates NOT NULL
NullCodeDoc ==
  Doc(1, 1, <<<<1, 11>>, <<2, 0>>>>, <<Area("A", <<"100", NoCode>>, <<"s", "c">>)>>)

\* no area, an area without a name, an area without weathers: nothing to store
NoAreasDoc == Doc(2, 1, <<<<1, 11>>>>, <<>>)
NamelessDoc == Doc(1, 1, <<<<1, 11>>>>, <<Area("", <<"100">>, <<"s">>), Area("B", <<"100">>, <<>>)>>)

DocPool ==
  {ValidDoc, TwoAreasDoc, NoReportDoc, NoOfficeDoc, NoTimeSeriesDoc, NoTimeDefinesDoc,
   NullCodeDoc, NoAreasDoc, NamelessDoc}

\* the three tables
Tables(a, r, f) == [areas |-> a, report_info |-> r, forecasts |-> f]

EmptyTables == Tables({}, <<>>, <<>>)

\* INSERT OR REPLACE INTO areas: area_code is the primary key
replace_area(a, code, name) ==
  {row \in a : row.area_code # code} \cup {[area_code |-> code, name |-> name]}

\* lines 275-289: the rows of one area, up to the first that has no code
RECURSIVE insert_forecasts(_, _, _, _, _, _)
insert_forecasts(f, area_code, report, defines, info, i) ==
  IF i > Min({Len(defines), Len(info.weatherCodes), Len(info.weathers)}) THEN [ok |-> TRUE, f |-> f]
  ELSE IF info.weatherCodes[i] = NoCode THEN [ok |-> FALSE, f |-> f]
  ELSE insert_forecasts(
         Append(f, [area_code |-> area_code, report_datetime |-> report,
                    forecast_date |-> defines[i], weather_code |-> info.weatherCodes[i],
                    weather |-> info.weathers[i]]),
         area_code, report, defines, info, i + 1)

\* lines 247-289: the areas of timeSeries[0] in turn
RECURSIVE insert_areas(_, _, _, _, _)
insert_areas(t, area_code, doc, k, ok) ==
  IF ~ok \/ k > Len(doc.areas) THEN [ok |-> ok, t |-> t]
  ELSE LET info == doc.areas[k]
           a == replace_area(t.areas, area_code, info.name)
           ins == insert_forecasts(t.forecasts, area_code, doc.reportDatetime,
                                   doc.timeDefines, info, 1)
       IN  IF info.name = "" THEN insert_areas(t, area_code, doc, k + 1, TRUE)
           ELSE IF info.weatherCodes = <<>> \/ info.weathers = <<>>
                THEN insert_areas(Tables(a, t.report_info, t.forecasts), area_code, doc,
                                  k + 1, TRUE)
           ELSE insert_areas(Tables(a, t.report_info, ins.f), area_code, doc, k + 1, ins.ok)

\* the outcome of save_weather_forecast: what it returns, the tables, whether
\* a transaction is open, the tables as committed
Saved(ret, t, open, c) == [ret |-> ret, tables |-> t, open |-> open, committed |-> c]

\* a slip: the rows are not committed
save_weather_forecast_uncommitted(t, open, c, area_code, doc) ==
  LET r == Append(t.report_info,
                  [area_code |-> area_code, report_datetime |-> doc.reportDatetime])
      stored == insert_areas(Tables(t.areas, r, t.forecasts), area_code, doc, 1, TRUE)
  IN  IF doc.reportDatetime = 0 \/ ~doc.publishingOffice THEN Saved(FALSE, t, open, c)
      ELSE IF open THEN Saved(FALSE, c, FALSE, c)
      ELSE IF \A row \in t.areas : row.area_code # area_code THEN Saved(FALSE, c, FALSE, c)
      ELSE IF doc.timeSeries = 0 THEN Saved(FALSE, Tables(t.areas, r, t.forecasts), TRUE, c)
      ELSE IF doc.timeDefines = <<>> THEN Saved(FALSE, Tables(t.areas, r, t.forecasts), TRUE, c)
      ELSE IF ~stored.ok THEN Saved(FALSE, c, FALSE, c)
      ELSE Saved(TRUE, stored.t, TRUE, c)

\* WeatherDatabase.save_weather_forecast (lines 194-310) on the tables t, a
\* transaction open or not, c the tables as committed:
\*   213-215  no report information: return False
\*   220      BEGIN inside a transaction raises; 304-310 roll back, return False
\*   223-227  the report row; its area_code must be in areas (foreign key,
\*            lines 72 and 117), or the INSERT raises
\*   232-242  no timeSeries or no timeDefines: return False, as the rows are
\*   247-289  the areas; a null weather code raises (NOT NULL, line 101)
\*   292      commit, return True
save_weather_forecast(t, open, c, area_code, doc) ==
  LET r == Append(t.report_info,
                  [area_code |-> area_code, report_datetime |-> doc.reportDatetime])
      stored == insert_areas(Tables(t.areas, r, t.forecasts), area_code, doc, 1, TRUE)
  IN  IF doc.reportDatetime = 0 \/ ~doc.publishingOffice THEN Saved(FALSE, t, open, c)
      ELSE IF open THEN Saved(FALSE, c, FALSE, c)
      ELSE IF \A row \in t.areas : row.area_code # area_code THEN Saved(FALSE, c, FALSE, c)
      ELSE IF doc.timeSeries = 0 THEN Saved(FALSE, Tables(t.areas, r, t.forecasts), TRUE, c)
      ELSE IF doc.timeDefines = <<>> THEN Saved(FALSE, Tables(t.areas, r, t.forecasts), TRUE, c)
      ELSE IF ~stored.ok THEN Saved(FALSE, c, FALSE, c)
      ELSE Saved(TRUE, stored.t, FALSE, stored.t)

\* the rows of s at the positions p[1], p[2], ...
Picked(s, p) == [i \in 1..Len(s) |-> s[p[i]]]

\* SELECT ... ORDER BY forecast_date: the rows in every order that is
\* ascending in forecast_date (rows of the same forecast_date in any order)
order_by_forecast_date(rows) ==
  {Picked(rows, p) : p \in
     {q \in Permutations(1..Len(rows)) :
        \A i, j \in 1..Len(rows) :
          i < j => ~DateLess(rows[q[j]].forecast_date, rows[q[i]].forecast_date)}}

\* the rows of a table that meet a test, in rowid order
RECURSIVE SelectSeq2(_, _, _)
SelectSeq2(s, area_code, report) ==
  IF s = <<>> THEN <<>>
  ELSE (IF Head(s).area_code = area_code /\ Head(s).report_datetime = report
        THEN <<Head(s)>> ELSE <<>>) \o SelectSeq2(Tail(s), area_code, report)

\* ORDER BY report_datetime DESC LIMIT 1 of the reports of the area, 0 when none
latest_report(t, area_code) ==
  LET R == {t.report_info[i].report_datetime : i \in
              {j \in 1..Len(t.report_info) : t.report_info[j].area_code = area_code}}
  IN  IF R = {} THEN 0 ELSE CHOOSE m \in R : \A n \in R : n <= m

\* lines 373-379
forecast_entry(row) ==
  [date |-> first10(row.forecast_date), weather_code |-> row.weather_code,
   weather |-> row.weather]

\* WeatherDatabase.get_weather_forecast (lines 312-388): the results it can
\* give, Null for None
db_get_weather_forecast(t, area_code) ==
  LET report == latest_report(t, area_code)
      rows == SelectSeq2(t.forecasts, area_code, report)
      names == {row.name : row \in {x \in t.areas : x.area_code = area_code}}
  IN  IF report = 0 \/ rows = <<>> THEN {Null}
      ELSE {Some([area_code |-> area_code,
                  area_name |-> IF names = {} THEN Unknown ELSE CHOOSE n \in names : TRUE,
                  report_datetime |-> report,
                  forecasts |-> [i \in 1..Len(fs) |-> forecast_entry(fs[i])]]) :
              fs \in order_by_forecast_date(rows)}

\* a slip: every forecast is kept
unique_forecasts_all(fs) == fs

\* lines 94-98: the first forecast of every date[:10]
RECURSIVE unique_forecasts(_)
unique_forecasts(fs) ==
  IF fs = <<>> THEN <<>>
  ELSE LET init == unique_forecasts(SubSeq(fs, 1, Len(fs) - 1))
           last == fs[Len(fs)]
       IN  IF \E i \in 1..Len(init) : first10(init[i].date) = first10(last.date) THEN init
           ELSE Append(init, last)

\* sorted(..., key=lambda x: x["date"]): a stable sort
RECURSIVE sorted_by_date(_)
sorted_by_date(fs) ==
  IF fs = <<>> THEN <<>>
  ELSE LET init == sorted_by_date(SubSeq(fs, 1, Len(fs) - 1))
           last == fs[Len(fs)]
           k == Cardinality({i \in 1..Len(init) : ~DateLess(last.date, init[i].date)})
       IN  SubSeq(init, 1, k) \o <<last>> \o SubSeq(init, k + 1, Len(init))

\* lines 93-104 and 127-137
deduplicated(f) ==
  IF f = Null THEN Null
  ELSE Some([f[1] EXCEPT !.forecasts = sorted_by_date(unique_forecasts(f[1].forecasts))])

\* what the last call was and did: the response of the API ("unasked" when it
\* was not asked, "none" when APIClient.get returned None, "refused",
\* "document"), an exception raised to the caller or not, what
\* save_weather_forecast returned when it was called, and the value returned
\* (Null for None)
Call(op, area_code, response, exc, saved, ret) ==
  [op |-> op, area_code |-> area_code, response |-> response, raised |-> exc,
   saved |-> saved, ret |-> ret]

\* WeatherAPI() (lines 17-29): the tables are dropped and created again
\* (weather_database.py 36-38)
InitWeather ==
  /\ NoLoad
  /\ NoScrape
  /\ NoCalc
  /\ tables = EmptyTables
  /\ committed = EmptyTables
  /\ in_transaction = FALSE
  /\ wx_last = Call("none", "", "unasked", FALSE, Null, Null)
  /\ served = {}

\* the other programs do not run
Others == UNCHANGED <<app_vars, scraper_vars, calc_vars>>

\* the offices of the database (weather_database.py 165-191)
offices == {row.area_code : row \in tables.areas}

\* get_area_list, lines 41-44 and 70: the database has the list
AreaListFromDb ==
  /\ offices # {}
  /\ wx_last' = Call("area_list", "", "unasked", FALSE, Null, Some(offices))
  /\ UNCHANGED <<tables, committed, in_transaction, served>>
  /\ Others

\* get_area_list, lines 48-50: APIClient.get has returned None (api_client.py
\* 67-83), and response.status_code raises AttributeError outside the try
AreaListRequestFails ==
  /\ offices = {}
  /\ wx_last' = Call("area_list", "", "none", TRUE, Null, Null)
  /\ UNCHANGED <<tables, committed, in_transaction, served>>
  /\ Others

\* get_area_list, lines 50-68: the status is not 200, or the body is no JSON
\* or has no offices
AreaListRefused ==
  /\ offices = {}
  /\ wx_last' = Call("area_list", "", "refused", FALSE, Null, Null)
  /\ UNCHANGED <<tables, committed, in_transaction, served>>
  /\ Others

\* get_area_list, lines 48-59 and 70: the list is stored (weather_database.py
\* 128-162: INSERT OR REPLACE of every office, commit)
AreaListFetched ==
  /\ offices = {}
  /\ tables' = [tables EXCEPT !.areas = {[area_code |-> c, name |-> c] : c \in AreaCodes}]
  /\ committed' = tables'
  /\ in_transaction' = FALSE
  /\ wx_last' = Call("area_list", "", "document", FALSE, Null, Some(AreaCodes))
  /\ UNCHANGED served
  /\ Others

\* get_weather_forecast, lines 84-85
ForecastNoCode ==
  /\ wx_last' = Call("forecast", "", "unasked", FALSE, Null, Null)
  /\ UNCHANGED <<tables, committed, in_transaction, served>>
  /\ Others

\* get_weather_forecast, lines 88-104: the database has a forecast
ForecastFromDb(area_code) ==
  /\ \E f \in db_get_weather_forecast(tables, area_code) :
       /\ f # Null
       /\ wx_last' = Call("forecast", area_code, "unasked", FALSE, Null, deduplicated(f))
  /\ served' = served \cup {area_code}
  /\ UNCHANGED <<tables, committed, in_transaction>>
  /\ Others

\* get_weather_forecast, lines 106-115 and 147-151: APIClient.get has returned
\* None; the AttributeError is caught
ForecastRequestFails(area_code) ==
  /\ db_get_weather_forecast(tables, area_code) = {Null}
  /\ wx_last' = Call("forecast", area_code, "none", FALSE, Null, Null)
  /\ UNCHANGED <<tables, committed, in_transaction, served>>
  /\ Others

\* get_weather_forecast, lines 115-119 and 140-145: the status is not 200, or
\* the body is an empty list
ForecastRefused(area_code) ==
  /\ db_get_weather_forecast(tables, area_code) = {Null}
  /\ wx_last' = Call("forecast", area_code, "refused", FALSE, Null, Null)
  /\ UNCHANGED <<tables, committed, in_transaction, served>>
  /\ Others

\* get_weather_forecast, lines 106-145: the document is saved, and when the
\* save returns True the database is read again
ForecastFetched(area_code, doc) ==
  /\ db_get_weather_forecast(tables, area_code) = {Null}
  /\ Len(tables.report_info) < MaxReportRows
  /\ LET s == save_weather_forecast(tables, in_transaction, committed, area_code, doc)
     IN  /\ tables' = s.tables
         /\ in_transaction' = s.open
         /\ committed' = s.committed
         /\ \E f \in (IF s.ret THEN db_get_weather_forecast(s.tables, area_code) ELSE {Null}) :
              /\ wx_last' = Call("forecast", area_code, "document", FALSE, Some(s.ret),
                                 deduplicated(f))
              /\ served' = IF f = Null THEN served ELSE served \cup {area_code}
  /\ Others

NextWeather ==
  \/ AreaListFromDb
  \/ AreaListRequestFails
  \/ AreaListRefused
  \/ AreaListFetched
  \/ ForecastNoCode
  \/ \E area_code \in AreaCodes : ForecastFromDb(area_code)
  \/ \E area_code \in AreaCodes : ForecastRequestFails(area_code)
  \/ \E area_code \in AreaCodes : ForecastRefused(area_code)
  \/ \E area_code \in AreaCodes, doc \in DocPool : ForecastFetched(area_code, doc)

SpecWeather == InitWeather /\ [][NextWeather]_vars

----------------------------------------------------------------------------
(* Properties *)

\* a cell that converts to an integer above zero
Positive(cell) == to_int(cell).ok /\ to_int(cell).value > 0

\* the step that runs the branch of the current file
ExtractStep == pc = "located" /\ data_start_row # NoRow

\* the table the branch of the current file reads
CurDf == df_of(files[idx].rows, data_start_row)

\* the records the step appends
Appended == SubSeq(all_data', Len(all_data) + 1, Len(all_data'))

\* C1: every record load_data returns has value > 0 and a region of the
\* 47-name whitelist
C1_ReturnedRecordsValid ==
  pc = "done" =>
    \A i \in 1..Len(result) :
       result[i].value > 0 /\ result[i].prefecture \in ValidSet

\* C1 witness: a run has returned records from a directory holding a row with
\* a region outside the whitelist and a row with a value that is not positive
C1_Witness ==
  /\ pc = "done"
  /\ result # <<>>
  /\ \E i \in 1..Len(files) : \E k \in 1..Len(files[i].rows) :
        /\ files[i].rows[k][1] = RawTokyoW
        /\ Positive(files[i].rows[k][2])
  /\ \E i \in 1..Len(files) : \E k \in 1..Len(files[i].rows) :
        /\ files[i].rows[k][1] = RawHokkaido
        /\ ~Positive(files[i].rows[k][2])

Reiwa5 == <<"u4EE4", "u548C", "5", "u5E74">>      \* 令和5年

\* C2: clean_prefecture_name returns None or exactly a whitelist name, never a
\* partly cleaned text; "令和5年" and "A" give None
C2_CleanGivesWhitelistOrNone ==
  called =>
    /\ name_out = None \/ name_out \in ValidSet
    /\ strip_steps(name_in) \notin ValidSet => name_out = None
    /\ name_in \in {Reiwa5, <<"A">>} => name_out = None

\* C2 witness: a text with a leading digit run and the facility-location
\* suffix has been cleaned to its whitelist name
C2_Witness ==
  /\ called
  /\ name_in = <<"1", "3">> \o Tokyo \o Shisetsu
  /\ name_out = Tokyo

FullWidth123 == <<"uFF11", "uFF12", "uFF13">>      \* １２３

\* C3: clean_prefecture_name("１２３東京都施設所在地") is "東京都"
C3_FullWidthDigitsStripped ==
  (called /\ name_in = FullWidth123 \o Tokyo \o Shisetsu) => name_out = Tokyo

\* the lines of a file, counted from its first line (0-based), that lie in
\* its first 15 lines and hold an anchor token in their first cell
AnchorLines(rows) ==
  {i \in 0..((IF Len(rows) < ScanRows THEN Len(rows) ELSE ScanRows) - 1) :
     has_anchor(rows[i + 1][1])}

\* C4: when one of the first 15 lines of the file has an anchor token in its
\* first cell, the scan returns the smallest index of such a line, counted
\* from the first line of the file
C4_ScanReturnsFirstAnchorLine ==
  (pc = "located" /\ AnchorLines(files[idx].rows) # {}) =>
     data_start_row = Min(AnchorLines(files[idx].rows))

\* C5: the records of a file come from the row the scan located (the first row
\* with an anchor token, line data_start_row + 1 of the file counted from 0)
\* and the rows after it; no earlier row contributes
C5_NoRecordFromEarlierRow ==
  [][ExtractStep =>
       all_data' = all_data
                   \o extract(files[idx].name, From(files[idx].rows, data_start_row + 2))]_vars

\* C6: when none of the first 15 lines of the file has an anchor token in its
\* first cell, the scan gives None (and the file is skipped)
C6_NoAnchorInWindowGivesNone ==
  (pc = "located" /\ AnchorLines(files[idx].rows) = {}) => data_start_row = NoRow

\* C7: in a 第2表 table of 17 or more columns, a row with a valid region gives a
\* 総数 record exactly when column 1 converts to an integer above zero and a
\* 外国人 record exactly when column 16 does, and nothing else is appended
C7_Table2RecordsExactly ==
  [][(ExtractStep /\ kind_of(files[idx].name) = "table2" /\ ncols(CurDf) >= MinCols2) =>
       LET good == {k \in 1..Len(CurDf) : row_prefecture(CurDf[k]) \in ValidSet}
       IN  /\ \A k \in good :
                /\ Positive(CurDf[k][2]) <=>
                     \E i \in 1..Len(Appended) :
                        Appended[i] = record(row_prefecture(CurDf[k]),
                                             to_int(CurDf[k][2]).value, Sosu)
                /\ Positive(CurDf[k][17]) <=>
                     \E i \in 1..Len(Appended) :
                        Appended[i] = record(row_prefecture(CurDf[k]),
                                             to_int(CurDf[k][17]).value, Gaikokujin)
           /\ Len(Appended) = Cardinality({k \in good : Positive(CurDf[k][2])})
                              + Cardinality({k \in good : Positive(CurDf[k][17])})]_vars

\* C7 witness: the one-row table with column 1 = "12,345" and column 16 = "0"
\* has been read and gave exactly the record (北海道, 12345, 総数)
C7_Witness ==
  /\ idx = 2
  /\ files[1] = MkFile(Name2, TitleRows, <<Row17(RawHokkaido, C12345, <<"0">>)>>)
  /\ all_data = <<record(RawHokkaido, 12345, Sosu)>>

\* C8: in a 第2表 table the two columns of a row are independent: column 16
\* gives its 外国人 record when column 1 fails to convert or is not positive,
\* and column 1 gives its 総数 record when column 16 fails or is not positive
C8_Table2ColumnsIndependent ==
  [][(ExtractStep /\ kind_of(files[idx].name) = "table2" /\ ncols(CurDf) >= MinCols2) =>
       \A k \in 1..Len(CurDf) :
          row_prefecture(CurDf[k]) \in ValidSet =>
            /\ (~Positive(CurDf[k][2]) /\ Positive(CurDf[k][17])) =>
                 \E i \in 1..Len(Appended) :
                    Appended[i] = record(row_prefecture(CurDf[k]),
                                         to_int(CurDf[k][17]).value, Gaikokujin)
            /\ (Positive(CurDf[k][2]) /\ ~Positive(CurDf[k][17])) =>
                 \E i \in 1..Len(Appended) :
                    Appended[i] = record(row_prefecture(CurDf[k]),
                                         to_int(CurDf[k][2]).value, Sosu)]_vars

\* C8 witness: a row whose column 1 does not convert ("nan") and whose column
\* 16 is "12,345" has given the 外国人 record alone
C8_Witness ==
  /\ idx = 2
  /\ files[1] = MkFile(Name2, TitleRows, <<Row17(RawHokkaido, Nan, C12345)>>)
  /\ ~to_int(Nan).ok
  /\ all_data = <<record(RawHokkaido, 12345, Gaikokujin)>>

\* C9: in a 参考第1表 table, a row with a valid region gives the record of the
\* category at list position i exactly when column i + 2 exists and converts
\* to an integer above zero, its value taken from that column; nothing else
\* is appended
C9_Sanko1PerCategory ==
  [][(ExtractStep /\ kind_of(files[idx].name) = "sanko1") =>
       LET good == {k \in 1..Len(CurDf) : row_prefecture(CurDf[k]) \in ValidSet}
           present == {kc \in good \X (0..(Len(nationalities) - 1)) :
                         /\ kc[2] + 2 < Len(CurDf[kc[1]])
                         /\ Positive(CurDf[kc[1]][kc[2] + 3])}
       IN  /\ \A k \in good : \A c \in 0..(Len(nationalities) - 1) :
                (<<k, c>> \in present) <=>
                   \E i \in 1..Len(Appended) :
                      /\ Appended[i].prefecture = row_prefecture(CurDf[k])
                      /\ Appended[i].nationality = nationalities[c + 1]
                      /\ c + 2 < Len(CurDf[k])
                      /\ Appended[i].value = to_int(CurDf[k][c + 3]).value
           /\ Len(Appended) = Cardinality(present)]_vars

\* C9 witness: the row whose category 3 (台湾) cell is not a number has given
\* the records of the 14 other categories and none for category 3
C9_Witness ==
  /\ idx = 2
  /\ files[1] = MkFile(NameSanko1, TitleRows,
                       <<RowSanko(RawHokkaido, Len(nationalities) + 2, 3, Nan)>>)
  /\ Len(all_data) = Len(nationalities) - 1
  /\ \A i \in 1..Len(all_data) : all_data[i].nationality # nationalities[4]
  /\ \E i \in 1..Len(all_data) :
        all_data[i] = record(RawHokkaido, 14, nationalities[5])

\* a file that fails: it cannot be read, its name has no table marker, or the
\* scan finds no data row
Fails(f) ==
  \/ f.rows = <<>>
  \/ kind_of(f.name) = "none"
  \/ scan(df_raw_of(f.rows)) = NoRow

\* what load_data returns for the files fs, one after the other
RECURSIVE RecordsOf(_)
RecordsOf(fs) ==
  IF fs = <<>> THEN <<>>
  ELSE (IF Head(fs).rows = <<>> \/ scan(df_raw_of(Head(fs).rows)) = NoRow THEN <<>>
        ELSE extract(Head(fs).name,
                     df_of(Head(fs).rows, scan(df_raw_of(Head(fs).rows)))))
       \o RecordsOf(Tail(fs))

\* C10: the result for a directory is the result for the same directory
\* without its failing files: a failing file changes nothing and the loop goes
\* on with the files after it
C10_FailingFilesChangeNothing ==
  pc = "done" =>
    result = valid_only(RecordsOf(SelectSeq(files, LAMBDA f : ~Fails(f))))

\* C10 witness: a run over a failing file followed by a well-formed one has
\* returned the records of the well-formed file
C10_Witness ==
  /\ pc = "done"
  /\ Len(files) = 2
  /\ Fails(files[1])
  /\ ~Fails(files[2])
  /\ result # <<>>

\* a 第2表 file of head title lines and two data rows under them, of at least 17
\* cells each: the title lines hold no anchor and no region, the first data row
\* holds an anchor (the data region starts there, inside the scan window), data
\* row v is of a region and holds exactly one value above zero, and the first
\* cell of the other data row does not clean to a region
TwoRowShape(f, v) ==
  LET head == Len(f.rows) - 2
      other == IF v = head + 1 THEN head + 2 ELSE head + 1
  IN  /\ kind_of(f.name) = "table2"
      /\ head >= 1
      /\ head <= ScanRows
      /\ v \in {head + 1, head + 2}
      /\ ncols(f.rows) >= MinCols2
      /\ \A i \in 1..head :
            ~has_anchor(f.rows[i][1]) /\ Falsy(row_prefecture(f.rows[i]))
      /\ has_anchor(f.rows[head + 1][1])
      /\ ~Falsy(row_prefecture(f.rows[v]))
      /\ Positive(f.rows[v][2]) # Positive(f.rows[v][MinCols2])
      /\ Falsy(row_prefecture(f.rows[other]))

\* C11: the run over one 第2表 file whose data region holds two rows, one of a
\* region with one value above zero and one whose first cell does not clean to
\* a region, returns exactly one record, that of the region's row, whichever of
\* the two rows comes first
C11_TwoRowsOneRecord ==
  \A v \in 1..(ScanRows + 2) :
    (pc = "done" /\ Len(files) = 1 /\ files[1].rows # <<>> /\ Len(files[1].rows) >= 3
       /\ TwoRowShape(files[1], v))
    => /\ Len(result) = 1
       /\ result[1].prefecture = row_prefecture(files[1].rows[v])
       /\ result[1].value > 0

\* C11 witness: the data region starts at row 3, its first row (北海道運輸局) does
\* not clean to a region, and the record of the second row (東京都) is returned
C11_Witness ==
  /\ pc = "done"
  /\ Len(files) = 1
  /\ Len(files[1].rows) = 5
  /\ TwoRowShape(files[1], 5)
  /\ files[1].rows[4][1] = HokkaidoUnyukyoku
  /\ result = <<record(Tokyo, 2000, Gaikokujin)>>

\* C12: the load_data calls of one run over an unchanged directory all return
\* the same list: a call does not depend on the calls before it
C12_CallsReturnTheSame ==
  \A i, j \in 1..Len(returned) : returned[i] = returned[j]

\* C12 witness: a second call has returned, and the list is not empty
C12_Witness ==
  /\ pc = "done"
  /\ Len(returned) = 2
  /\ returned[2] # <<>>
  /\ returned[2] = result

\* the table kinds of which the file name holds a marker, half-width or
\* full-width
Marked(filename) ==
  (IF Contains(filename, Dai2) \/ Contains(filename, Dai2W) THEN {"table2"} ELSE {})
  \cup (IF Contains(filename, Sanko1) \/ Contains(filename, Sanko1W)
        THEN {"sanko1"} ELSE {})
  \cup (IF Contains(filename, Dai4) \/ Contains(filename, Dai4W) THEN {"table4"} ELSE {})

\* what the branch of one table kind makes of the table df
BranchRecords(kind, df) ==
  CASE kind = "table2" ->
         IF ncols(df) >= MinCols2 THEN rows_from(df, 1, "table2") ELSE <<>>
    [] kind = "sanko1" -> rows_from(df, 1, "sanko1")
    [] kind = "table4" ->
         IF ncols(df) >= MinCols4 THEN rows_from(df, 1, "table4") ELSE <<>>

\* C13: a file whose name holds the marker of one table kind, in half-width
\* or in full-width digits, is read by the branch of that kind; a file whose
\* name holds no marker adds no record
C13_BothWidthsRecognized ==
  [][ExtractStep =>
       /\ \A kind \in {"table2", "sanko1", "table4"} :
             Marked(files[idx].name) = {kind}
             => Appended = BranchRecords(kind, CurDf)
       /\ Marked(files[idx].name) = {} => Appended = <<>>]_vars

\* C13 witness: 第２表.csv and 第2表.csv with the same lines have each given the
\* two records of the 第2表 branch
C13_Witness ==
  /\ pc = "done"
  /\ Len(files) = 2
  /\ files[1].name = Name2W
  /\ files[2].name = Name2
  /\ files[1].rows = files[2].rows
  /\ result = <<record(RawHokkaido, 12345, Sosu), record(RawHokkaido, 100, Gaikokujin),
                record(RawHokkaido, 12345, Sosu), record(RawHokkaido, 100, Gaikokujin)>>

\* C19: a file whose name holds the markers of several table kinds is read by
\* one branch only: that of 第2表 if its marker is there, else that of 参考第1表
C19_FirstMarkerWins ==
  [][(ExtractStep /\ Cardinality(Marked(files[idx].name)) > 1) =>
       Appended = BranchRecords(IF "table2" \in Marked(files[idx].name)
                                THEN "table2" ELSE "sanko1", CurDf)]_vars

\* C19 witness: 第4表_第2表.csv has given the two records of the 第2表 branch, and
\* 第4表_参考第1表.csv after it the fifteen of the 参考第1表 branch
C19_Witness ==
  /\ pc = "done"
  /\ Len(files) = 2
  /\ files[1].name = Name4and2
  /\ files[2].name = Name4andSanko1
  /\ Len(result) = 2 + Len(nationalities)
  /\ result[1] = record(RawHokkaido, 12345, Sosu)
  /\ result[2] = record(RawHokkaido, 100, Gaikokujin)
  /\ \A i \in 1..Len(nationalities) : result[2 + i].nationality = nationalities[i]

\* C14: a 第2表 table of fewer than 17 columns adds no record, and a 第4表 table
\* of fewer than 2 columns adds no record
C14_NarrowTablesGiveNothing ==
  [][ExtractStep =>
       /\ (kind_of(files[idx].name) = "table2" /\ ncols(CurDf) < MinCols2)
          => Appended = <<>>
       /\ (kind_of(files[idx].name) = "table4" /\ ncols(CurDf) < MinCols4)
          => Appended = <<>>]_vars

\* C14 witness: a 第2表 table of 16 columns and a 第4表 table of one column,
\* both with a data row of the region 北海道, have been read, and nothing is
\* returned
C14_Witness ==
  /\ pc = "done"
  /\ Len(files) = 2
  /\ files[1] = MkFile(Name2, TitleRows, <<NarrowRow(MinCols2 - 1)>>)
  /\ Positive(files[1].rows[TitleRows + 1][2])
  /\ files[2] = MkFile(Name4W, TitleRows, <<NarrowRow(MinCols4 - 1)>>)
  /\ scan(df_raw_of(files[1].rows)) # NoRow
  /\ scan(df_raw_of(files[2].rows)) # NoRow
  /\ result = <<>>

\* the labels the records of one table kind can carry
LabelsOf(kind) ==
  CASE kind = "table2" -> {Sosu, Gaikokujin}
    [] kind = "sanko1" -> {nationalities[i] : i \in 1..Len(nationalities)}
    [] kind = "table4" -> {Jitsushukuhakusha}
    [] OTHER -> {}

\* C15: the label of a record is one of its file's table kind: 総数 or 外国人
\* from a 第2表 file, one of the fifteen origin countries from a 参考第1表
\* file, 実宿泊者 from a 第4表 file, which gives at most one record a row
C15_LabelsByKind ==
  [][ExtractStep =>
       /\ \A i \in 1..Len(Appended) :
             Appended[i].nationality \in LabelsOf(kind_of(files[idx].name))
       /\ kind_of(files[idx].name) = "table4" => Len(Appended) <= Len(CurDf)]_vars

\* C15 witness: a 第4表 file of three data rows has given three 実宿泊者 records
\* and a 参考第1表 file after it records of origin countries
C15_Witness ==
  /\ pc = "done"
  /\ Len(files) = 2
  /\ kind_of(files[1].name) = "table4"
  /\ kind_of(files[2].name) = "sanko1"
  /\ Len(result) > 3
  /\ \A i \in 1..3 : result[i].nationality = Jitsushukuhakusha
  /\ \A i \in 4..Len(result) : result[i].nationality \in LabelsOf("sanko1")

\* a cell without its thousands separators
Plain(cell) == replace(cell, <<",">>)

\* a cell that is an unsigned decimal numeral: digits, at most one point
IsDecimal(cell) ==
  /\ \A i \in 1..Len(Plain(cell)) : Plain(cell)[i] \in AsciiDigits \cup {"."}
  /\ Cardinality({i \in 1..Len(Plain(cell)) : Plain(cell)[i] = "."}) <= 1
  /\ \E i \in 1..Len(Plain(cell)) : Plain(cell)[i] \in AsciiDigits

\* the number of digits of a decimal cell
DigitCount(cell) == Cardinality({i \in 1..Len(Plain(cell)) : Plain(cell)[i] # "."})

\* the whole part of a decimal cell: its value truncated toward zero
WholePart(cell) ==
  ToNat(IF Find(Plain(cell), <<".">>) = 0 THEN Plain(cell)
        ELSE SubSeq(Plain(cell), 1, Find(Plain(cell), <<".">>) - 1))

\* the record of the truncated value of a row's cell, if above zero
TruncatedRecord(row) ==
  IF WholePart(row[2]) > 0
  THEN <<record(row_prefecture(row), WholePart(row[2]), Jitsushukuhakusha)>>
  ELSE <<>>

\* the records of rows k, k+1, ... of a 第4表 table if every decimal cell gives
\* its truncated value
RECURSIVE TruncatedFrom(_, _)
TruncatedFrom(df, k) ==
  IF k > Len(df) THEN <<>>
  ELSE (IF Falsy(row_prefecture(df[k])) THEN <<>>
        ELSE IF IsDecimal(df[k][2]) THEN TruncatedRecord(df[k])
        ELSE row_table4(df[k]))
       \o TruncatedFrom(df, k + 1)

\* C16 as stated: the value of a record is its cell without thousands
\* separators, read as a decimal number and truncated toward zero; a cell
\* whose value is below 1 gives no record
C16_TruncatesEveryDecimal ==
  [][(ExtractStep /\ kind_of(files[idx].name) = "table4" /\ ncols(CurDf) >= MinCols4)
       => Appended = TruncatedFrom(CurDf, 1)]_vars

\* decimal digits a double always holds exactly
ExactDigits == 15

\* the records of rows k, k+1, ... of a 第4表 table if every decimal cell of at
\* most ExactDigits digits gives its truncated value and 0.99999999999999999
\* gives 1
RECURSIVE ShortTruncatedFrom(_, _)
ShortTruncatedFrom(df, k) ==
  IF k > Len(df) THEN <<>>
  ELSE (IF Falsy(row_prefecture(df[k])) THEN <<>>
        ELSE IF IsDecimal(df[k][2]) /\ DigitCount(df[k][2]) <= ExactDigits
        THEN TruncatedRecord(df[k])
        ELSE IF df[k][2] = CNearOne
        THEN <<record(row_prefecture(df[k]), 1, Jitsushukuhakusha)>>
        ELSE row_table4(df[k]))
       \o ShortTruncatedFrom(df, k + 1)

\* C16, amended: the value of a record is its cell without thousands
\* separators, read as a decimal number and truncated toward zero, for cells of
\* at most 15 digits; the cell 0.99999999999999999, whose value is below 1, is
\* read as the double 1.0 and gives a record of value 1
C16_TruncatesShortDecimal ==
  [][(ExtractStep /\ kind_of(files[idx].name) = "table4" /\ ncols(CurDf) >= MinCols4)
       => Appended = ShortTruncatedFrom(CurDf, 1)]_vars

\* C16 witness: the rows 12,345.7 and 0.5 and 0.99999999999999999 have given
\* the values 12345, none, and 1
C16_Witness ==
  /\ pc = "done"
  /\ Len(files) = 1
  /\ files[1] \in FractionFiles
  /\ result = <<record(RawHokkaido, 12345, Jitsushukuhakusha),
                record(Tokyo, 1, Jitsushukuhakusha)>>

\* C18: a file that cannot be read adds no record, and no file adds a part of
\* its records: every step of the loop leaves the records accumulated so far
\* in place and appends either nothing or all the records of the current file
C18_NoPartialFile ==
  [][(pc = "read" \/ pc = "located") =>
       /\ SubSeq(all_data', 1, Len(all_data)) = all_data
       /\ Appended \in {<<>>, RecordsOf(<<files[idx]>>)}
       /\ (files[idx].rows = <<>> => Len(Appended) = 0)]_vars

\* C18 witness: the loop has ended over a file of three records followed by
\* a file that cannot be read; the three records are all there is
C18_Witness ==
  /\ pc = "finish"
  /\ Len(files) = 2
  /\ files[2].rows = <<>>
  /\ Len(all_data) = 3
  /\ all_data = RecordsOf(<<files[1]>>)

\* how many records of data have the prefecture p and the nationality n
CountPair(data, p, n) ==
  Cardinality({i \in 1..Len(data) : data[i].prefecture = p /\ data[i].nationality = n})

\* the sum of CountPair over the records of each file of fs
RECURSIVE CountPairOver(_, _, _)
CountPairOver(fs, p, n) ==
  IF fs = <<>> THEN 0
  ELSE CountPair(RecordsOf(<<Head(fs)>>), p, n) + CountPairOver(Tail(fs), p, n)

\* the sum of the record counts of the files fs
RECURSIVE CountOver(_)
CountOver(fs) ==
  IF fs = <<>> THEN 0 ELSE Len(RecordsOf(<<Head(fs)>>)) + CountOver(Tail(fs))

\* C20: the returned list has as many records as the files gave, one after the
\* other, and a pair of prefecture and nationality is in it once for every
\* record of a file that has the pair: nothing is merged
C20_FlatAccumulation ==
  pc = "done" =>
    /\ Len(result) = CountOver(files)
    /\ \A i \in 1..Len(result) :
          CountPair(result, result[i].prefecture, result[i].nationality)
          = CountPairOver(files, result[i].prefecture, result[i].nationality)

\* C20 witness: 第4表.csv and 第４表.csv, with the same lines, have each given the
\* record of 北海道, and both are returned
C20_Witness ==
  /\ pc = "done"
  /\ Len(files) = 2
  /\ files[1].name = Name4
  /\ files[2].name = Name4W
  /\ files[1].rows = files[2].rows
  /\ result = <<record(RawHokkaido, 12345, Jitsushukuhakusha),
                record(RawHokkaido, 12345, Jitsushukuhakusha)>>

\* the key of a stored row; rows with no month (NULL) have the key of their
\* prefecture and nationality alone
KeyOf(row) == <<row.prefecture, row.nationality, row.month>>

\* C17: tourism_data holds at most one row of a key (prefecture, nationality,
\* month), the rows with no month counted by prefecture and nationality alone
C17_OneRowPerKey ==
  \A i, j \in 1..Len(tourism_data) :
    i # j => KeyOf(tourism_data[i]) # KeyOf(tourism_data[j])

\* C21: the final filter removes nothing: when the loop has ended, every
\* accumulated record has a region and a value above zero already
C21_FinalFilterRemovesNothing ==
  pc = "finish" => valid_only(all_data) = all_data

\* C21 witness: the loop has ended over a 第2表 file with a cell 0, which gave
\* no record, and the record of the other cell is there for the filter
C21_Witness ==
  /\ pc = "finish"
  /\ Len(files) = 1
  /\ kind_of(files[1].name) = "table2"
  /\ \E k \in 1..Len(files[1].rows) : files[1].rows[k][MinCols2] = <<"0">>
  /\ Len(all_data) = 1
  /\ all_data[1].value > 0

\* C22: a call on a whitelist name returns the name, and a call on the name a
\* call has returned returns that name again
C22_WhitelistNamesAreFixed ==
  [][/\ (called' /\ name_in' \in ValidSet) => name_out' = name_in'
     /\ (called /\ name_out # None) => name_out' = name_out]_vars

\* C22 witness: the call on the four-character whitelist name 鹿児島県 has
\* returned 鹿児島県
C22_Witness ==
  /\ called
  /\ name_in = valid_prefectures[Len(valid_prefectures) - 1]
  /\ Len(name_in) = 4
  /\ name_out = name_in

\* the row a step has appended to scraping_log, the value it has returned
LoggedRow == scraping_log'[Len(scraping_log')]

ReturnedValue == scrape_returned'[Len(scrape_returned')]

\* C23: a step writes the log or returns only by appending one row and
\* returning one value together, the row says 'success' exactly when the value
\* is True, and a call that returns False has logged 'error' with 0 records
\* and has stored no row of tourism_data
C23_OneLogRowPerCall ==
  [][/\ (scraping_log' # scraping_log \/ scrape_returned' # scrape_returned)
          => /\ Len(scraping_log') = Len(scraping_log) + 1
             /\ SubSeq(scraping_log', 1, Len(scraping_log)) = scraping_log
             /\ Len(scrape_returned') = Len(scrape_returned) + 1
             /\ SubSeq(scrape_returned', 1, Len(scrape_returned)) = scrape_returned
             /\ (LoggedRow.status = "success") <=> (ReturnedValue = TRUE)
             /\ sc_pc' = "idle"
     /\ (Len(scrape_returned') > Len(scrape_returned) /\ ReturnedValue = FALSE)
          => /\ LoggedRow = [records_added |-> 0, status |-> "error"]
             /\ sc_pc = "idle"
             /\ tourism_data' = tourism_data]_vars

\* C23 witness: a call has stored rows and returned True, the call after it
\* has failed, and the rows are still there
C23_Witness ==
  /\ scrape_returned = <<TRUE, FALSE>>
  /\ Len(scraping_log) = 2
  /\ scraping_log[1].status = "success"
  /\ scraping_log[1].records_added > 0
  /\ scraping_log[2] = [records_added |-> 0, status |-> "error"]
  /\ tourism_data # <<>>
  /\ sc_pc = "idle"

\* C24: a press that finds "Error" on the display leaves "0" on it, the
\* pending operator "+", the first operand 0 and the new-operand flag on, and
\* raises nothing
C24_ErrorIsCleared ==
  [][(result_value = Error)
       => /\ result_value' = Str(<<"0">>)
          /\ operator' = "+"
          /\ operand1' = IntOf(0)
          /\ new_operand' = TRUE
          /\ ~raised']_vars

\* C24 witness: the last press found "Error", and the calculator is as it was
\* constructed
C24_Witness ==
  /\ after_error
  /\ result_value = Str(<<"0">>)
  /\ operator = "+"
  /\ operand1 = IntOf(0)
  /\ new_operand
  /\ ~raised

\* the presses of a session as its entries: a run of digits is one entry, any
\* other button is an entry of its own
RECURSIVE entries(_)
entries(ps) ==
  IF ps = <<>> THEN <<>>
  ELSE LET init == entries(SubSeq(ps, 1, Len(ps) - 1))
           d == ps[Len(ps)]
       IN  IF d \in AsciiDigits /\ init # <<>> /\ init[Len(init)][1] \in AsciiDigits
           THEN SubSeq(init, 1, Len(init) - 1) \o <<init[Len(init)] \o <<d>>>>
           ELSE init \o <<<<d>>>>

\* an entry that is a whole number, an entry that is an operator
IsNumber(e) == AllDigits(e)
IsOperator(e) == Len(e) = 1 /\ e[1] \in OperatorKeys

\* a op b for the number entries a and b, a the running result; no value when
\* the division is one by zero
Applied(a, e, op) ==
  IF a = Null \/ (op[1] = "/" /\ ToNat(e) = 0) THEN Null
  ELSE arith(a[1], ToNat(e) * Scale, op[1])

\* the display shows the number v
Shows(v) == v # Null /\ result_value = format_number(v[1])

\* C25: after a, op1, b, op2 the display shows a op1 b; after a, op1, b, op2,
\* c, = it shows (a op1 b) op2 c; after a, op1, b, =, op2 it shows a op1 b,
\* which is the first operand of op2 (no division by zero in any of them)
C25_LeftToRight ==
  LET es == entries(entered)
      shape(k) == /\ Len(es) = k
                  /\ IsNumber(es[1]) /\ IsOperator(es[2]) /\ IsNumber(es[3])
      first == Applied(Some(ToNat(es[1]) * Scale), es[3], es[2])
  IN  /\ (shape(4) /\ IsOperator(es[4]) /\ first # Null) => Shows(first)
      /\ (/\ shape(6) /\ IsOperator(es[4]) /\ IsNumber(es[5]) /\ es[6] = <<"=">>
          /\ Applied(first, es[5], es[4]) # Null)
           => Shows(Applied(first, es[5], es[4]))
      /\ (shape(5) /\ es[4] = <<"=">> /\ IsOperator(es[5]) /\ first # Null)
           => /\ Shows(first)
              /\ operand1 = FloatOf(first[1])
              /\ operator = es[5][1]

\* C25 witness: 2 + 2 * 2 = shows 8
C25_Witness ==
  /\ entered = <<"2", "+", "2", "*", "2", "=">>
  /\ result_value = IntOf(8 * Scale)

\* C26: the display shows "Error" or a text or number that float() converts,
\* the first operand is a number unless the display shows "Error", and the
\* last press has raised no exception
C26_NoUncaughtException ==
  /\ result_value = Error \/ float_of(result_value).ok
  /\ result_value # Error => operand1.type # "str"
  /\ ~raised

\* C27: a get_weather_forecast call asks the API only when the database has
\* no forecast for the area; a call for an area that an earlier call has
\* returned a forecast for asks nothing and returns a forecast
C27_CacheFirst ==
  [][(wx_last'.op = "forecast")
       => /\ (wx_last'.response # "unasked")
               => db_get_weather_forecast(tables, wx_last'.area_code) = {Null}
          /\ (wx_last'.area_code \in served)
               => (wx_last'.response = "unasked" /\ wx_last'.ret # Null)]_vars

\* C27 witness: both areas have been fetched and stored, and the last call is
\* answered from the database
C27_Witness ==
  /\ wx_last.op = "forecast"
  /\ wx_last.response = "unasked"
  /\ wx_last.ret # Null
  /\ served = AreaCodes
  /\ Len(tables.report_info) >= 2

\* C28: the forecasts of a returned forecast are in ascending order of their
\* date[:10], no two of the same date[:10]
C28_OnePerDateAscending ==
  (wx_last.op = "forecast" /\ wx_last.ret # Null)
    => \A i, j \in 1..Len(wx_last.ret[1].forecasts) :
         i < j => DateLess(first10(wx_last.ret[1].forecasts[i].date),
                           first10(wx_last.ret[1].forecasts[j].date))

\* C28 witness: two forecasts are returned for an area and a report that have
\* more than two rows
C28_Witness ==
  /\ wx_last.op = "forecast"
  /\ wx_last.ret # Null
  /\ Len(wx_last.ret[1].forecasts) = 2
  /\ Len(SelectSeq2(tables.forecasts, wx_last.area_code, wx_last.ret[1].report_datetime)) > 2

\* C29: a call in which save_weather_forecast returns False leaves the rows
\* of the three tables as they were, and no transaction open
C29_FailedSaveChangesNothing ==
  [][(wx_last'.saved = Some(FALSE)) => (tables' = tables /\ ~in_transaction')]_vars

\* C30: a call in which APIClient.get returns None returns None and raises
\* nothing
C30_FailedRequestGivesNone ==
  (wx_last.response = "none") => (~wx_last.raised /\ wx_last.ret = Null)

====
